---------------------------- MODULE Spec2Model ----------------------------
(***************************************************************************)
(* A model of the qns emulator core (ctoth/qns): the shadow-RAM physical   *)
(* memory (qns/memory.py) and the SSI-263 speech chip register machine     *)
(* (qns/ssi263.py), with the host-loop calls of qns/bns.py that drive it.  *)
(*                                                                         *)
(* Memory is modelled sparsely: the byte arrays keep their real sizes and  *)
(* the model tracks the cells at the probe addresses the inputs can reach. *)
(* Every cell of a bytearray is independent of the others, so the probe    *)
(* cells behave exactly as they do inside the full arrays.                 *)
(***************************************************************************)
EXTENDS Integers, Sequences, FiniteSets, TLC

VARIABLES
    \* ---- Memory (qns/memory.py) ----
    ram,            \* self.ram, at the probe addresses below len(self.ram)
    rom,            \* self.rom, at the probe addresses below len(self.rom)
    rom_len,        \* len(self.rom)
    rom_loaded,     \* self.rom_loaded
    written_addrs,  \* self._written_addrs
    cbr, bbr, cbar, \* MMU registers
    mem_last,       \* history: the last Memory call, [op, addr]
    mem_ret,        \* history: what the last Memory call returned
    last_write,     \* history: masked address -> value of the latest write call
    \* ---- SSI-263 (qns/ssi263.py) ----
    duration_phoneme, inflection, rate_inflection, ctrl_art_amp, filter_freq,
    speaking, irq_enabled, current_phoneme,
    pending_irq_cycle,  \* self._pending_irq_cycle (None or a cycle)
    current_cycle,      \* self._current_cycle
    phoneme_log,        \* self.phoneme_log
    irq_callback,       \* self._irq_callback is set
    chip_last,          \* history: the last chip call, [op, port, value]
    chip_ret,           \* history: what the last SSI263.read returned
    irq_asserts,        \* history: callback(1) calls since the last emission
    emit_deadline,      \* history: current_cycle + duration at the last emission
    emit_kind,          \* history: what the latest register write emitted
    standby_since_emit, \* history: standby written while an IRQ was pending
    \* ---- _calc_phoneme_duration_cycles on its own (qns/ssi263.py) ----
    calc_rateinf,       \* self.rate_inflection it reads
    calc_durphon,       \* self.duration_phoneme it reads
    calc_clock,         \* self._clock it reads
    calc_result,        \* what it returned (None before the call)
    \* ---- SSI263Synth bound to the chip (qns/synth/ssi263_synth.py) ----
    synth_bound,        \* SSI263._synth is set
    syn,                \* SSI263Synth.state, an SSI263State
    played,             \* phonemes _play_current_phoneme has played
    \* ---- the same calls made on a chip without and with a synth ----
    run,                \* "none", "bare": chip without synth, "bound": with one,
                        \* "late", "late_standby": with one bound afterwards
    script,             \* the calls made on the chip without synth
    snaps,              \* that chip's state after each of them
    replay_pos,         \* the next call of script to make on the bound chip
    \* ---- I/O bus and peripherals (qns/io.py), IRQ wiring (qns/bns.py) ----
    read_handlers,      \* IOBus._read_handlers: port -> handler
    write_handlers,     \* IOBus._write_handlers: port -> handler
    dots,               \* BrailleKeyboard.dots
    buffer,             \* BrailleDisplay.buffer
    cursor,             \* BrailleDisplay.cursor
    wd_counter,         \* Watchdog.counter
    io_last,            \* history: the last bus call and the handler it invoked
    io_ret,             \* history: what the last IOBus.read returned
    irq_calls,          \* history: the cpu.set_irq calls of the last step
    \* ---- the execution loop, BNS.run (qns/bns.py) ----
    max_cycles,         \* the budget run was called with (None before the call)
    cycles_run,         \* the local cycles_run
    chunk,              \* the chunk last handed to cpu.run (None before one)
    halted,             \* cpu.halted
    loop_pc,            \* "idle", "loop", or how run was left
    \* ---- AudioPlayer (qns/synth/player.py) ----
    stream,             \* self._stream is not None
    queue,              \* self._queue: the lengths of the enqueued arrays
    player_buffer,      \* len(self._buffer)
    playing,            \* self._playing
    lock,               \* who holds self._lock: "free" or "callback"
    player_last,        \* history: the last player call and what it returned
    last_full,          \* history: the last callback delivered a full block
    flow,               \* the samples in self._queue and self._buffer and the
                        \* samples delivered, followed while FlowSpec runs
    \* ---- functions checked on their own ----
    fn_in,              \* the function applied and its arguments
    fn_out              \* what it returned

memVars == <<ram, rom, rom_len, rom_loaded, written_addrs, cbr, bbr, cbar,
             mem_last, mem_ret, last_write>>
chipRegs == <<duration_phoneme, inflection, rate_inflection, ctrl_art_amp,
              filter_freq>>
chipState == <<duration_phoneme, inflection, rate_inflection, ctrl_art_amp,
               filter_freq, speaking, irq_enabled, current_phoneme,
               pending_irq_cycle, current_cycle, phoneme_log, irq_callback>>
chipHist == <<chip_last, chip_ret, irq_asserts, emit_deadline, emit_kind,
              standby_since_emit>>
chipVars == <<chipState, chipHist>>
calcVars == <<calc_rateinf, calc_durphon, calc_clock, calc_result>>
synthState == <<synth_bound, syn, played>>
synVars == <<synthState, run, script, snaps, replay_pos>>
periph == <<dots, buffer, cursor, wd_counter>>
busVars == <<read_handlers, write_handlers, periph, io_last, io_ret, irq_calls>>
loopVars == <<max_cycles, cycles_run, chunk, halted, loop_pc>>
playerVars == <<stream, queue, player_buffer, playing, lock, player_last,
                last_full>>
hostVars == <<loopVars, playerVars, flow, fn_in, fn_out>>
vars == <<memVars, chipVars, calcVars, synVars, busVars, hostVars>>

\* What the memory operations and the chip operations leave alone.
offMem == <<chipVars, calcVars, synVars, busVars, hostVars>>
offChip == <<memVars, calcVars, synVars, busVars, hostVars>>

\* Python's None, for fields and arguments that hold None or a non-negative int.
None == 0 - 1

Min(a, b) == IF a < b THEN a ELSE b

-----------------------------------------------------------------------------
(* Memory                                                                  *)

RamSize == 524288
RomSize == 262144
AddrSpace == 1048576

\* addr &= 0xFFFFF
MaskAddr(addr) == addr % AddrSpace

\* value & 0xFF
MaskByte(value) == value % 256

\* Addresses handed to read and write: an address inside the ROM buffer, its
\* over-wide alias, the first address past the power-on ROM buffer, the last
\* RAM cell, the first address past RAM, and a negative address.
NProbes == 6
ProbeSeq == <<256, AddrSpace + 256, RomSize, RamSize - 1, RamSize, -1,
              RomSize - 1, 0, AddrSpace - 1>>
AddrInputs == {ProbeSeq[i] : i \in 1..Min(NProbes, Len(ProbeSeq))}
Probes == {MaskAddr(a) : a \in AddrInputs}
RamProbes == {p \in Probes : p < RamSize}

\* Values handed to write: a byte and an over-wide value.
ValueInputs == {85, 256 + 51}

\* ROM images handed to load_rom: byte i of an image is (seed + i) mod 256.
\* The second image is one byte longer than the ROM buffer.
Images == {[len |-> 65536, seed |-> 17],
           [len |-> RomSize + 1, seed |-> 170]}
DataByte(img, i) == (img.seed + i) % 256

\* set_mmu argument triples <<cbr, bbr, cbar>>: None is a field not given, and
\* 256 + 32 is an over-wide value.
MmuInputs == {<<256 + 32, None, None>>, <<None, 16, 256 + 32>>}

MemInit ==
    /\ ram = [p \in RamProbes |-> 0]
    /\ rom = [p \in Probes |-> 0]
    /\ rom_len = RomSize
    /\ rom_loaded = FALSE
    /\ written_addrs = {}
    /\ cbr = 0
    /\ bbr = 0
    /\ cbar = 240
    /\ mem_last = [op |-> "init", addr |-> 0]
    /\ mem_ret = None
    /\ last_write = [p \in Probes |-> None]

\* self.rom[offset:offset + len(data)] = data; a slice reaching past the end
\* of the bytearray lengthens it, a slice starting past the end appends.
RomAfterLoad(img, offset) ==
    LET lo == Min(offset, rom_len)
        hi == Min(offset + img.len, rom_len)
    IN  [p \in Probes |->
            IF lo <= p /\ p < lo + img.len THEN DataByte(img, p - lo)
            ELSE IF p < lo THEN rom[p]
            ELSE IF p < lo + img.len + (rom_len - hi) THEN rom[p]
            ELSE 0]

RomLenAfterLoad(img, offset) ==
    LET lo == Min(offset, rom_len)
        hi == Min(offset + img.len, rom_len)
    IN  lo + img.len + (rom_len - hi)

LoadRom(img, offset) ==
    /\ rom' = RomAfterLoad(img, offset)
    /\ rom_len' = RomLenAfterLoad(img, offset)
    /\ rom_loaded' = TRUE
    /\ mem_last' = [op |-> "load_rom", addr |-> offset]
    /\ mem_ret' = None
    /\ UNCHANGED <<ram, written_addrs, cbr, bbr, cbar, last_write>>

\* Variant of ReadValue: the ROM region is tested before the written-set.
ReadValue_RomFirst(a) ==
    IF a < rom_len /\ rom_loaded THEN rom[a]
    ELSE IF a < RamSize THEN ram[a]
    ELSE 255

\* Variant of ReadValue: the ROM overlay is left out.
ReadValue_RamOnly(a) == IF a < RamSize THEN ram[a] ELSE 255

\* Memory.read's return value for an already masked address.
ReadValue(a) ==
    IF a < RamSize /\ a \in written_addrs THEN ram[a]
    ELSE IF a < rom_len /\ rom_loaded THEN rom[a]
    ELSE IF a < RamSize THEN ram[a]
    ELSE 255

MemRead(addr) ==
    /\ mem_ret' = ReadValue(MaskAddr(addr))
    /\ mem_last' = [op |-> "read", addr |-> MaskAddr(addr)]
    /\ UNCHANGED <<ram, rom, rom_len, rom_loaded, written_addrs, cbr, bbr,
                   cbar, last_write>>

RamAfterWrite(a, value) ==
    IF a < RamSize THEN [ram EXCEPT ![a] = MaskByte(value)] ELSE ram

\* Variant of WrittenAfterWrite: the address is recorded without the RAM
\* bound test.
WrittenAfterWrite_NoBound(a) == written_addrs \cup {a}

\* Variant of WrittenAfterWrite: the set keeps the latest address only.
WrittenAfterWrite_Latest(a) == IF a < RamSize THEN {a} ELSE written_addrs

WrittenAfterWrite(a) ==
    IF a < RamSize THEN written_addrs \cup {a} ELSE written_addrs

MemWrite(addr, value) ==
    /\ ram' = RamAfterWrite(MaskAddr(addr), value)
    /\ written_addrs' = WrittenAfterWrite(MaskAddr(addr))
    /\ mem_last' = [op |-> "write", addr |-> MaskAddr(addr)]
    /\ last_write' = [last_write EXCEPT ![MaskAddr(addr)] = MaskByte(value)]
    /\ mem_ret' = None
    /\ UNCHANGED <<rom, rom_len, rom_loaded, cbr, bbr, cbar>>

MmuField(old, arg) == IF arg = None THEN old ELSE MaskByte(arg)

SetMmu(c, b, a) ==
    /\ cbr' = MmuField(cbr, c)
    /\ bbr' = MmuField(bbr, b)
    /\ cbar' = MmuField(cbar, a)
    /\ mem_last' = [op |-> "set_mmu", addr |-> 0]
    /\ mem_ret' = None
    /\ UNCHANGED <<ram, rom, rom_len, rom_loaded, written_addrs, last_write>>

\* Variant of ResetMmu: reset leaves CBAR as it is.
ResetMmu_KeepCbar == <<0, 0, None>>

\* The arguments BNS.reset hands to set_mmu: cbr=0, bbr=0, cbar=0xF0.
ResetMmu == <<0, 0, 240>>

\* BNS.reset: cpu.reset(), which touches CPU registers only, and then
\* memory.set_mmu(cbr=0, bbr=0, cbar=0xF0).
BnsReset ==
    /\ cbr' = MmuField(cbr, ResetMmu[1])
    /\ bbr' = MmuField(bbr, ResetMmu[2])
    /\ cbar' = MmuField(cbar, ResetMmu[3])
    /\ mem_last' = [op |-> "reset", addr |-> 0]
    /\ mem_ret' = None
    /\ UNCHANGED <<ram, rom, rom_len, rom_loaded, written_addrs, last_write>>

MemNext ==
    \/ \E img \in Images : LoadRom(img, 0) /\ UNCHANGED offMem
    \/ \E addr \in AddrInputs : MemRead(addr) /\ UNCHANGED offMem
    \/ \E addr \in AddrInputs, value \in ValueInputs :
          MemWrite(addr, value) /\ UNCHANGED offMem
    \/ \E m \in MmuInputs : SetMmu(m[1], m[2], m[3]) /\ UNCHANGED offMem
    \/ BnsReset /\ UNCHANGED offMem

\* translate(logical), the standalone translator: CBAR splits the logical
\* space at bank_start and common1_start; Common Area 0 and Common Area 1 add
\* CBR << 12, the Bank Area subtracts bank_start and adds BBR << 12.
Translate(logical) ==
    LET bank_start == (cbar % 16) * 4096
        common1_start == (cbar \div 16) * 4096
    IN  IF logical < bank_start
        THEN [region |-> "Common0", physical |-> logical + cbr * 4096]
        ELSE IF logical < common1_start
        THEN [region |-> "Bank",
              physical |-> logical - bank_start + bbr * 4096]
        ELSE [region |-> "Common1", physical |-> logical + cbr * 4096]

\* A call of translate, which changes nothing.
MmuTranslate(logical) ==
    /\ mem_ret' = Translate(logical).physical
    /\ mem_last' = [op |-> "translate", addr |-> logical,
                    region |-> Translate(logical).region]
    /\ UNCHANGED <<ram, rom, rom_len, rom_loaded, written_addrs, cbr, bbr,
                   cbar, last_write>>

\* MMU settings from one register at a time (0, one page step, bank and
\* common splits, 0xFF) and logical addresses at the ends and inside of the
\* 16-bit space.
MmuNext ==
    \/ \E c \in {0, 16, 255} : SetMmu(c, None, None) /\ UNCHANGED offMem
    \/ \E b \in {0, 16, 255} : SetMmu(None, b, None) /\ UNCHANGED offMem
    \/ \E a \in {0, 72, 132, 240, 255} :
          SetMmu(None, None, a) /\ UNCHANGED offMem
    \/ \E logical \in {0, 4660, 16384, 32768, 65535} :
          MmuTranslate(logical) /\ UNCHANGED offMem

-----------------------------------------------------------------------------
(* SSI-263                                                                 *)

Clock == 12288000
BasePort == 192

\* Register offsets, REG_DURPHON .. REG_FILTER.
RegDurphon == 0
RegInflect == 1
RegRateinf == 2
RegCtrlamp == 3
RegFilter == 4

MaxLog == 2
MaxCycleK == 1
MaxAsserts == 2

\* Register writes handed to SSI263.write, as <<port, value>>: DURPHON with
\* mode 0 and mode 3, INFLECT, RATEINF with rate 15 and rate 0, CTRLAMP active
\* and standby, FILTER, and the ports just outside the chip's five.
WriteInputs == {<<192, 7>>, <<192, 197>>, <<193, 18>>, <<194, 240>>,
                <<194, 0>>, <<195, 127>>, <<195, 128>>, <<196, 32>>,
                <<197, 1>>, <<191, 1>>}
ReadPorts == 191..197

\* Cycle counts the host loop hands to set_cycle_count.
CycleInputs == {k * 100000 : k \in 0..MaxCycleK}

\* value & 0x80, value & 0xC0, value & 0x3F
CtlBit(value) == (value \div 128) % 2 = 1
ModeBits(value) == ((value \div 64) % 4) * 64
PhonemeBits(value) == value % 64

ChipInit ==
    /\ duration_phoneme = 192
    /\ inflection = 0
    /\ rate_inflection = 0
    /\ ctrl_art_amp = 128
    /\ filter_freq = 255
    /\ speaking = FALSE
    /\ irq_enabled = FALSE
    /\ current_phoneme = 0
    /\ pending_irq_cycle = None
    /\ current_cycle = 0
    /\ phoneme_log = <<>>
    /\ irq_callback = FALSE
    /\ chip_last = [op |-> "init", port |-> 0, value |-> 0]
    /\ chip_ret = None
    /\ irq_asserts = 0
    /\ emit_deadline = None
    /\ emit_kind = "none"
    /\ standby_since_emit = FALSE

\* _calc_phoneme_duration_cycles, for the register bytes it reads. The code
\* computes (duration_ms * clock) // 1000 on unbounded integers; the product
\* is split here so that it stays inside TLC's 32-bit integers: the two are
\* equal because (clock \div 1000) * 1000 * duration_ms is a multiple of 1000.
\* Variant of DurationMs: the duration mode scales the phoneme up, not down.
DurationMs_ModeUp(rateinf, durphon) ==
    LET rate == (rateinf \div 16) % 16
        dur_mode == (durphon \div 64) % 4
    IN  (((16 - rate) * 4096) \div 1023) * (1 + dur_mode)

DurationMs(rateinf, durphon) ==
    LET rate == (rateinf \div 16) % 16
        dur_mode == (durphon \div 64) % 4
    IN  (((16 - rate) * 4096) \div 1023) * (4 - dur_mode)

CalcDurationCycles(rateinf, durphon, clock) ==
    LET ms == DurationMs(rateinf, durphon)
    IN  ms * (clock \div 1000) + (ms * (clock % 1000)) \div 1000

\* The same for the chip's own clock.
DurationCycles(rateinf, durphon) == CalcDurationCycles(rateinf, durphon, Clock)

\* Cycle counts handed to check_pending_irq: the host loop's, and the cycles
\* on both sides of the scheduled one.
CheckInputs ==
    CycleInputs
    \cup (IF pending_irq_cycle = None THEN {}
          ELSE {pending_irq_cycle - 1, pending_irq_cycle, pending_irq_cycle + 1})
    \cup (IF emit_deadline = None THEN {}
          ELSE {emit_deadline - 1, emit_deadline})

SetIrqCallback ==
    /\ irq_callback' = TRUE
    /\ chip_last' = [op |-> "set_irq_callback", port |-> 0, value |-> 0]
    /\ chip_ret' = None
    /\ UNCHANGED <<chipRegs, speaking, irq_enabled, current_phoneme,
                   pending_irq_cycle, current_cycle, phoneme_log, irq_asserts,
                   emit_deadline, emit_kind, standby_since_emit>>

SetCycleCount(cycles) ==
    /\ current_cycle' = cycles
    /\ chip_last' = [op |-> "set_cycle_count", port |-> 0, value |-> 0]
    /\ chip_ret' = None
    /\ UNCHANGED <<chipRegs, speaking, irq_enabled, current_phoneme,
                   pending_irq_cycle, phoneme_log, irq_callback, irq_asserts,
                   emit_deadline, emit_kind, standby_since_emit>>

\* Variant of IrqDue: the scheduled cycle itself does not count as reached.
IrqDue_Strict(cycle) == pending_irq_cycle # None /\ cycle > pending_irq_cycle

\* Variant of IrqDue: a pending IRQ fires at the first check, due or not.
IrqDue_Early(cycle) == pending_irq_cycle # None

\* The condition under which check_pending_irq fires.
IrqDue(cycle) == pending_irq_cycle # None /\ cycle >= pending_irq_cycle

\* _pending_irq_cycle after check_pending_irq has fired.
PendingAfterFire == None

\* check_pending_irq. irq_asserts counts the callback(1) calls; the count is
\* capped at MaxAsserts.
CheckPendingIrq(cycle) ==
    /\ irq_asserts < MaxAsserts
    /\ IF IrqDue(cycle)
       THEN /\ pending_irq_cycle' = PendingAfterFire
            /\ speaking' = FALSE
            /\ irq_asserts' = IF irq_callback THEN irq_asserts + 1
                                              ELSE irq_asserts
       ELSE UNCHANGED <<pending_irq_cycle, speaking, irq_asserts>>
    /\ chip_last' = [op |-> "check_pending_irq", port |-> 0, value |-> 0]
    /\ chip_ret' = None
    /\ UNCHANGED <<chipRegs, irq_enabled, current_phoneme, current_cycle,
                   phoneme_log, irq_callback, emit_deadline, emit_kind,
                   standby_since_emit>>

\* Variant of StatusByte: the A/R bit is inverted.
StatusByte_Inverted == IF speaking THEN 0 ELSE 128

\* The status byte a read of register 4 returns.
StatusByte == IF ~speaking THEN 0 ELSE 128

ReadResult(port) == IF port - BasePort = RegFilter THEN StatusByte ELSE 255

ChipRead(port) ==
    /\ chip_ret' = ReadResult(port)
    /\ chip_last' = [op |-> "read", port |-> port, value |-> 0]
    /\ UNCHANGED <<chipState, irq_asserts, emit_deadline, emit_kind,
                   standby_since_emit>>

\* self.irq_enabled = mode != self.MODE_IRQ_DISABLED
IrqEnabledFor(value) == ModeBits(value) # 0

\* Variant of PendingAfterSpeak: the deadline is the duration alone, not
\* counted from the current cycle.
PendingAfterSpeak_NoBase(durphon, irqen) ==
    IF irqen /\ irq_callback
    THEN DurationCycles(rate_inflection, durphon)
    ELSE pending_irq_cycle

\* _pending_irq_cycle after _speak_phoneme, for the DURPHON byte and the
\* irq_enabled flag in force when it runs.
PendingAfterSpeak(durphon, irqen) ==
    IF irqen /\ irq_callback
    THEN current_cycle + DurationCycles(rate_inflection, durphon)
    ELSE pending_irq_cycle

\* Variant of LogAfterSpeak: the new entry goes to the front of the log.
LogAfterSpeak_Prepend(phoneme) == <<phoneme>> \o phoneme_log

\* self.phoneme_log.append(phoneme)
LogAfterSpeak(phoneme) == Append(phoneme_log, phoneme)

\* _speak_phoneme(phoneme), called with duration_phoneme = durphon and
\* irq_enabled = irqen already stored.
SpeakPhoneme(phoneme, durphon, irqen) ==
    /\ current_phoneme' = phoneme
    /\ phoneme_log' = LogAfterSpeak(phoneme)
    /\ speaking' = TRUE
    /\ pending_irq_cycle' = PendingAfterSpeak(durphon, irqen)
    /\ irq_asserts' = 0
    /\ emit_deadline' = current_cycle + DurationCycles(rate_inflection, durphon)
    /\ emit_kind' = IF ~irqen THEN "irq_off"
                    ELSE IF ~irq_callback THEN "no_callback" ELSE "armed"
    /\ standby_since_emit' = FALSE

\* History after a register write that emits nothing.
QuietWrite ==
    /\ irq_asserts' = irq_asserts
    /\ emit_deadline' = None
    /\ emit_kind' = "none"

WriteDurphon(value) ==
    /\ duration_phoneme' = value
    /\ irq_enabled' = IrqEnabledFor(value)
    /\ IF ~CtlBit(ctrl_art_amp)
       THEN SpeakPhoneme(PhonemeBits(value), value, IrqEnabledFor(value))
       ELSE /\ QuietWrite
            /\ UNCHANGED <<current_phoneme, phoneme_log, speaking,
                           pending_irq_cycle, standby_since_emit>>
    /\ UNCHANGED <<inflection, rate_inflection, ctrl_art_amp, filter_freq>>

WriteInflect(value) ==
    /\ inflection' = value
    /\ QuietWrite
    /\ UNCHANGED <<duration_phoneme, rate_inflection, ctrl_art_amp, filter_freq,
                   speaking, irq_enabled, current_phoneme, pending_irq_cycle,
                   phoneme_log, standby_since_emit>>

WriteRateinf(value) ==
    /\ rate_inflection' = value
    /\ QuietWrite
    /\ UNCHANGED <<duration_phoneme, inflection, ctrl_art_amp, filter_freq,
                   speaking, irq_enabled, current_phoneme, pending_irq_cycle,
                   phoneme_log, standby_since_emit>>

\* Variant of WakeTransition: every write with CTL=0 counts as a wake-up.
WakeTransition_AnyActive(old_ctl, new_ctl) == ~new_ctl

\* old_ctl and not new_ctl
WakeTransition(old_ctl, new_ctl) == old_ctl /\ ~new_ctl

\* not old_ctl and new_ctl
StandbyTransition(old_ctl, new_ctl) == ~old_ctl /\ new_ctl

WriteCtrlamp(value) ==
    /\ ctrl_art_amp' = value
    /\ IF WakeTransition(CtlBit(ctrl_art_amp), CtlBit(value))
       THEN SpeakPhoneme(PhonemeBits(duration_phoneme), duration_phoneme,
                         irq_enabled)
       ELSE /\ speaking' =
                  IF StandbyTransition(CtlBit(ctrl_art_amp), CtlBit(value))
                  THEN FALSE ELSE speaking
            /\ QuietWrite
            /\ standby_since_emit' =
                  IF /\ CtlBit(value)
                     /\ pending_irq_cycle # None
                     /\ current_cycle < pending_irq_cycle
                  THEN TRUE ELSE standby_since_emit
            /\ UNCHANGED <<current_phoneme, phoneme_log, pending_irq_cycle>>
    /\ UNCHANGED <<duration_phoneme, inflection, rate_inflection, filter_freq,
                   irq_enabled>>

WriteFilter(value) ==
    /\ filter_freq' = value
    /\ QuietWrite
    /\ UNCHANGED <<duration_phoneme, inflection, rate_inflection, ctrl_art_amp,
                   speaking, irq_enabled, current_phoneme, pending_irq_cycle,
                   phoneme_log, standby_since_emit>>

\* A write to a port that is none of the chip's five registers.
WriteOther ==
    UNCHANGED <<chipRegs, speaking, irq_enabled, current_phoneme,
                pending_irq_cycle, phoneme_log, irq_asserts, emit_deadline,
                emit_kind, standby_since_emit>>

\* SSI263.write. The log is capped: while MaxLog entries wait to be flushed
\* no further write is taken.
ChipWrite(port, value) ==
    /\ Len(phoneme_log) < MaxLog
    /\ LET reg == port - BasePort
       IN  CASE reg = RegDurphon -> WriteDurphon(value)
             [] reg = RegInflect -> WriteInflect(value)
             [] reg = RegRateinf -> WriteRateinf(value)
             [] reg = RegCtrlamp -> WriteCtrlamp(value)
             [] reg = RegFilter -> WriteFilter(value)
             [] OTHER -> WriteOther
    /\ chip_last' = [op |-> "write", port |-> port, value |-> value]
    /\ chip_ret' = None
    /\ UNCHANGED <<current_cycle, irq_callback>>

\* The host loop's flush of the phoneme log at a chunk boundary.
FlushLog ==
    /\ phoneme_log # <<>>
    /\ phoneme_log' = <<>>
    /\ chip_last' = [op |-> "flush", port |-> 0, value |-> 0]
    /\ chip_ret' = None
    /\ UNCHANGED <<chipRegs, speaking, irq_enabled, current_phoneme,
                   pending_irq_cycle, current_cycle, irq_callback, irq_asserts,
                   emit_deadline, emit_kind, standby_since_emit>>

\* Register bytes and clocks for _calc_phoneme_duration_cycles on its own:
\* every rate with two settings of the low nibble, every duration mode, and
\* clocks of 1 Hz, just below and at 1 kHz, the audio rate and the CPU clock.
RateinfInputs == {r * 16 + lo : r \in 0..15, lo \in {0, 15}}
DurphonInputs == {d * 64 + 5 : d \in 0..3}
ClockInputs == {1, 999, 1000, 22050, Clock}

\* A chip whose registers and clock are drawn from the inputs.
CalcInit ==
    /\ calc_rateinf \in RateinfInputs
    /\ calc_durphon \in DurphonInputs
    /\ calc_clock \in ClockInputs
    /\ calc_result = None

\* The power-on chip of the emulator: nothing computed yet.
CalcIdle ==
    /\ calc_rateinf = 0
    /\ calc_durphon = 192
    /\ calc_clock = Clock
    /\ calc_result = None

\* A call of _calc_phoneme_duration_cycles.
CalcPhonemeDurationCycles ==
    /\ calc_result' = CalcDurationCycles(calc_rateinf, calc_durphon, calc_clock)
    /\ UNCHANGED <<calc_rateinf, calc_durphon, calc_clock>>

CalcNext ==
    CalcPhonemeDurationCycles
    /\ UNCHANGED <<memVars, chipVars, synVars, busVars, hostVars>>

ChipNext ==
    \/ SetIrqCallback /\ UNCHANGED offChip
    \/ \E cycles \in CycleInputs : SetCycleCount(cycles) /\ UNCHANGED offChip
    \/ \E cycle \in CheckInputs : CheckPendingIrq(cycle) /\ UNCHANGED offChip
    \/ \E port \in ReadPorts : ChipRead(port) /\ UNCHANGED offChip
    \/ \E w \in WriteInputs : ChipWrite(w[1], w[2]) /\ UNCHANGED offChip
    \/ FlushLog /\ UNCHANGED offChip

-----------------------------------------------------------------------------
(* SSI263Synth behind the chip                                             *)

MaxScript == 3

\* SSI263State()
SynthPowerOn ==
    [phoneme |-> 0, duration |-> 0, inflection |-> 2048, rate |-> 8,
     articulation |-> 0, amplitude |-> 15, filter_freq |-> 0, control |-> TRUE]

\* No synth is bound and no chip has been driven yet.
SynthIdle ==
    /\ synth_bound = FALSE
    /\ syn = SynthPowerOn
    /\ played = <<>>
    /\ run = "none"
    /\ script = <<>>
    /\ snaps = <<>>
    /\ replay_pos = 0

\* write_durphon, write_inflect, write_rateinf, write_ctrlamp, write_filter:
\* the SSI263State after the write to register reg has stored its fields.
\* The fields of an inflection word do not overlap, so | is +.
SynthStored(reg, value) ==
    CASE reg = RegDurphon ->
             [syn EXCEPT !.duration = (value \div 64) % 4,
                         !.phoneme = value % 64]
      [] reg = RegInflect ->
             [syn EXCEPT !.inflection = (syn.inflection % 8) + value * 8]
      [] reg = RegRateinf ->
             [syn EXCEPT !.rate = (value \div 16) % 16,
                         !.inflection = ((value \div 8) % 2) * 2048
                                        + ((syn.inflection \div 8) % 256) * 8
                                        + (value % 8)]
      [] reg = RegCtrlamp ->
             [syn EXCEPT !.control = CtlBit(value),
                         !.articulation = (value \div 16) % 8,
                         !.amplitude = value % 16]
      [] reg = RegFilter -> [syn EXCEPT !.filter_freq = value]
      [] OTHER -> syn

\* Whether the write goes on to _play_current_phoneme: write_durphon when
\* not in standby, write_ctrlamp when control goes from true to false.
SynthPlays(reg, value) ==
    \/ reg = RegDurphon /\ ~syn.control
    \/ reg = RegCtrlamp /\ syn.control /\ ~CtlBit(value)

\* The `if self._synth:` branches of SSI263.write, and _play_current_phoneme
\* behind them (an amplitude of 0 is forced to 15 before playing).
SynthForward(port, value) ==
    LET reg == port - BasePort
        st == SynthStored(reg, value)
    IN  /\ IF synth_bound
           THEN IF SynthPlays(reg, value)
                THEN /\ syn' = [st EXCEPT !.amplitude =
                                              IF @ = 0 THEN 15 ELSE @]
                     /\ played' = Append(played, st.phoneme)
                ELSE /\ syn' = st
                     /\ played' = played
           ELSE UNCHANGED <<syn, played>>
        /\ UNCHANGED synth_bound

\* Variant of WriteWithSynth: with a synth bound the write is handed to the
\* synth alone and the chip keeps no state of its own.
WriteWithSynth_SynthOnly(port, value) ==
    /\ IF synth_bound
       THEN /\ chip_last' = [op |-> "write", port |-> port, value |-> value]
            /\ chip_ret' = None
            /\ UNCHANGED <<chipState, irq_asserts, emit_deadline, emit_kind,
                           standby_since_emit>>
       ELSE ChipWrite(port, value)
    /\ SynthForward(port, value)

\* SSI263.write on a chip that may have a synth bound.
WriteWithSynth(port, value) ==
    /\ ChipWrite(port, value)
    /\ SynthForward(port, value)

\* SSI263(base_port, clock) followed by set_irq_callback: a new chip with
\* its IRQ line connected.
NewChip ==
    /\ duration_phoneme' = 192
    /\ inflection' = 0
    /\ rate_inflection' = 0
    /\ ctrl_art_amp' = 128
    /\ filter_freq' = 255
    /\ speaking' = FALSE
    /\ irq_enabled' = FALSE
    /\ current_phoneme' = 0
    /\ pending_irq_cycle' = None
    /\ current_cycle' = 0
    /\ phoneme_log' = <<>>
    /\ irq_callback' = TRUE
    /\ chip_last' = [op |-> "init", port |-> 0, value |-> 0]
    /\ chip_ret' = None
    /\ irq_asserts' = 0
    /\ emit_deadline' = None
    /\ emit_kind' = "none"
    /\ standby_since_emit' = FALSE

\* Calls made on both chips, <<op, argument, value>>: register writes (among
\* them a CTRLAMP byte with amplitude 0 and a RATEINF byte with I11 set),
\* set_cycle_count and check_pending_irq.
ScriptInputs == {<<"write", 192, 197>>, <<"write", 195, 127>>,
                 <<"write", 195, 128>>, <<"write", 194, 240>>,
                 <<"write", 193, 18>>, <<"write", 196, 32>>,
                 <<"write", 195, 112>>, <<"write", 194, 29>>,
                 <<"cycle", 100000, 0>>, <<"check", 0, 0>>,
                 <<"check", 900000, 0>>}

ChipCall(in) ==
    CASE in[1] = "write" -> WriteWithSynth(in[2], in[3])
      [] in[1] = "cycle" -> SetCycleCount(in[2]) /\ UNCHANGED synthState
      [] in[1] = "check" -> CheckPendingIrq(in[2]) /\ UNCHANGED synthState

\* The chip state the two chips are compared on, with the count of IRQ
\* assertions since the last emission.
ChipView ==
    <<chipRegs, speaking, irq_enabled, current_phoneme, pending_irq_cycle,
      phoneme_log, irq_asserts>>

\* A chip is created with no synth.
StartBare ==
    /\ run = "none"
    /\ NewChip
    /\ run' = "bare"
    /\ UNCHANGED <<synthState, script, snaps, replay_pos>>

\* One more call on the chip without synth.
DriveBare(in) ==
    /\ run = "bare"
    /\ Len(script) < MaxScript
    /\ ChipCall(in)
    /\ script' = Append(script, in)
    /\ snaps' = Append(snaps, ChipView')
    /\ UNCHANGED <<run, replay_pos>>

\* A second chip is created and set_synth binds a new SSI263Synth to it.
StartBound ==
    /\ run = "bare"
    /\ script # <<>>
    /\ NewChip
    /\ synth_bound' = TRUE
    /\ syn' = SynthPowerOn
    /\ played' = <<>>
    /\ run' = "bound"
    /\ replay_pos' = 1
    /\ UNCHANGED <<script, snaps>>

\* The next call of the script on the chip with the synth.
DriveBound ==
    /\ run = "bound"
    /\ replay_pos <= Len(script)
    /\ ChipCall(script[replay_pos])
    /\ replay_pos' = replay_pos + 1
    /\ UNCHANGED <<run, script, snaps>>

MaxLate == 3

\* Writes made after a late set_synth: DURPHON, and CTRLAMP with CTL clear
\* and with CTL set.
LateInputs == {<<"write", 192, 197>>, <<"write", 195, 127>>,
               <<"write", 195, 128>>}

\* set_synth on the chip that has been driven without one: a new
\* SSI263Synth is stored and nothing else of the chip changes. The run
\* records whether the chip was in standby when the synth was bound.
SetSynth ==
    /\ run = "bare"
    /\ synth_bound' = TRUE
    /\ syn' = SynthPowerOn
    /\ played' = <<>>
    /\ run' = IF CtlBit(ctrl_art_amp) THEN "late_standby" ELSE "late"
    /\ replay_pos' = 1
    /\ UNCHANGED <<chipVars, script, snaps>>

\* One more write on the chip after the late set_synth.
DriveLate(in) ==
    /\ run \in {"late", "late_standby"}
    /\ replay_pos <= MaxLate
    /\ ChipCall(in)
    /\ replay_pos' = replay_pos + 1
    /\ UNCHANGED <<run, script, snaps>>

offSynth == <<memVars, calcVars, busVars, hostVars>>

SynthNext ==
    \/ StartBare /\ UNCHANGED offSynth
    \/ \E in \in ScriptInputs : DriveBare(in) /\ UNCHANGED offSynth
    \/ StartBound /\ UNCHANGED offSynth
    \/ DriveBound /\ UNCHANGED offSynth
    \/ SetSynth /\ UNCHANGED offSynth
    \/ \E in \in LateInputs : DriveLate(in) /\ UNCHANGED offSynth

-----------------------------------------------------------------------------
(* I/O bus and peripherals                                                 *)

DisplayBase == 128
Cells == 40

MaxDisplayWrites == 2

\* Handlers are named by the object whose bound methods they are: "ssi263",
\* "keyboard", "display", "watchdog", and "cbr", "bbr", "cbar" for the MMU
\* lambdas of BNS._setup_io. "none" is no handler (None).
\* dict.get(port): the handler bound to the port, or none.
DictGet(d, port) == IF port \in DOMAIN d THEN d[port] ELSE "none"

\* Variant of RegisterMany: a handler left out unbinds the ports.
RegisterMany_Clobber(d, ports, handler) ==
    IF handler # "none"
    THEN [x \in DOMAIN d \cup ports |-> IF x \in ports THEN handler ELSE d[x]]
    ELSE [x \in DOMAIN d \ ports |-> d[x]]

\* One handler dict after IOBus.register has run for each of the ports:
\* `if handler: handlers[port] = handler`.
RegisterMany(d, ports, handler) ==
    IF handler # "none"
    THEN [x \in DOMAIN d \cup ports |-> IF x \in ports THEN handler ELSE d[x]]
    ELSE d

\* Variant of MaskPort: the port is used as given.
MaskPort_Wide(port) == port

\* port &= 0xFF
MaskPort(port) == port % 256

\* IOBus(), BrailleKeyboard(), BrailleDisplay(), Watchdog(): no bindings, no
\* key down, an empty display. I/O logging is off (io.logging = trace_io).
BusInit ==
    /\ read_handlers = [x \in {} |-> "none"]
    /\ write_handlers = [x \in {} |-> "none"]
    /\ dots = 0
    /\ buffer = [i \in 1..Cells |-> 0]
    /\ cursor = 0
    /\ wd_counter = 0
    /\ io_last = [op |-> "init", port |-> 0, value |-> 0, handler |-> "none",
                  rh |-> "none", wh |-> "none"]
    /\ io_ret = None
    /\ irq_calls = {}

\* IOBus.register(port, read_handler, write_handler), and
\* IOBus.register_range(start, end, read_handler, write_handler) for the
\* ports start..end. io_last keeps the first port and the two handlers.
BusRegister(ports, first, rh, wh) ==
    /\ read_handlers' = RegisterMany(read_handlers, ports, rh)
    /\ write_handlers' = RegisterMany(write_handlers, ports, wh)
    /\ io_last' = [op |-> "register", port |-> first, value |-> 0,
                   handler |-> "none", rh |-> rh, wh |-> wh]
    /\ io_ret' = None
    /\ irq_calls' = {}
    /\ UNCHANGED <<periph, memVars, chipVars>>

\* What the read handler h returns for the port: SSI263.read,
\* BrailleKeyboard.read, BrailleDisplay.read, Watchdog.read, the MMU lambdas;
\* 0xFF with no handler.
HandlerReturns(h, port) ==
    CASE h = "ssi263" -> ReadResult(port)
      [] h = "keyboard" -> dots
      [] h = "display" -> IF port - DisplayBase = 1 THEN 0 ELSE 255
      [] h = "watchdog" -> 255
      [] h = "cbr" -> cbr
      [] h = "bbr" -> bbr
      [] h = "cbar" -> cbar
      [] OTHER -> 255

\* IOBus.read(port)
BusRead(port) ==
    LET p == MaskPort(port)
        h == DictGet(read_handlers, p)
    IN  /\ io_ret' = HandlerReturns(h, p)
        /\ io_last' = [op |-> "read", port |-> port, value |-> 0,
                       handler |-> h, rh |-> "none", wh |-> "none"]
        /\ IF h = "ssi263" THEN ChipRead(p) ELSE UNCHANGED chipVars
        /\ irq_calls' = {}
        /\ UNCHANGED <<read_handlers, write_handlers, periph, memVars>>

\* BrailleDisplay.write(port, value)
DisplayWrite(port, value) ==
    IF port - DisplayBase = 0 /\ cursor < Cells
    THEN /\ buffer' = [buffer EXCEPT ![cursor + 1] = MaskByte(value)]
         /\ cursor' = cursor + 1
    ELSE UNCHANGED <<buffer, cursor>>

\* IOBus.write(port, value), with the write handler it calls. Writes that
\* reach the display are capped at MaxDisplayWrites.
BusWrite(port, value) ==
    LET p == MaskPort(port)
        v == MaskByte(value)
        h == DictGet(write_handlers, p)
    IN  /\ h = "display" => cursor < MaxDisplayWrites
        /\ CASE h = "ssi263" ->
                    ChipWrite(p, v) /\ UNCHANGED <<memVars, periph>>
             [] h = "display" ->
                    /\ DisplayWrite(p, v)
                    /\ UNCHANGED <<memVars, chipVars, dots, wd_counter>>
             [] h = "watchdog" ->
                    /\ wd_counter' = 0
                    /\ UNCHANGED <<memVars, chipVars, dots, buffer, cursor>>
             [] h = "cbr" ->
                    SetMmu(v, None, None) /\ UNCHANGED <<chipVars, periph>>
             [] h = "bbr" ->
                    SetMmu(None, v, None) /\ UNCHANGED <<chipVars, periph>>
             [] h = "cbar" ->
                    SetMmu(None, None, v) /\ UNCHANGED <<chipVars, periph>>
             [] OTHER -> UNCHANGED <<memVars, chipVars, periph>>
        /\ io_last' = [op |-> "write", port |-> port, value |-> value,
                       handler |-> h, rh |-> "none", wh |-> "none"]
        /\ io_ret' = None
        /\ irq_calls' = {}
        /\ UNCHANGED <<read_handlers, write_handlers>>

\* register calls <<port, read_handler, write_handler>>: the display and the
\* keyboard on their ports, the watchdog laid over port 0x80 with one handler
\* left out, and a port wider than 8 bits.
RegisterInputs == {<<128, "display", "display">>, <<128, "none", "watchdog">>,
                   <<128, "watchdog", "none">>, <<64, "keyboard", "keyboard">>,
                   <<256 + 128, "watchdog", "watchdog">>}

\* register_range calls <<start, end, read_handler, write_handler>>.
RangeInputs == {<<128, 131, "display", "display">>,
                <<129, 130, "none", "watchdog">>}

\* Ports read and <<port, value>> pairs written on the bare bus: bound and
\* unbound ports, over-wide ports and values.
BusReadPorts == {128, 129, 256 + 128, 64, 52}
BusWriteInputs == {<<128, 65>>, <<256 + 128, 256 + 66>>, <<129, 1>>,
                   <<64, 9>>, <<52, 7>>}

offBus == <<calcVars, synVars, hostVars>>

BusNext ==
    \/ \E r \in RegisterInputs :
          BusRegister({r[1]}, r[1], r[2], r[3]) /\ UNCHANGED offBus
    \/ \E r \in RangeInputs :
          BusRegister(r[1]..r[2], r[1], r[3], r[4]) /\ UNCHANGED offBus
    \/ \E port \in BusReadPorts : BusRead(port) /\ UNCHANGED offBus
    \/ \E w \in BusWriteInputs : BusWrite(w[1], w[2]) /\ UNCHANGED offBus

-----------------------------------------------------------------------------
(* The wired emulator (BNS)                                                *)

MaxRuns == 3

\* IRQ lines the callbacks of BNS.__init__ are made for.
KbdIrqLine == 2
SsiIrqLine == 1

\* Cycles of one chunk of BNS.run.
ChunkCycles == 1000

\* The handler dicts BNS._setup_io leaves: each register call passes the
\* read and the write method of one object, so both dicts bind the same
\* names. BrailleKeyboard defines no keyclr_read and no keyclr_write, so port
\* 0x20 gets no binding; the watchdog is bound to no port.
WiredHandlers ==
    LET none == [x \in {} |-> "none"]
        ssi == RegisterMany(none, BasePort..(BasePort + 4), "ssi263")
        kbd == RegisterMany(ssi, {64}, "keyboard")
        disp == RegisterMany(kbd, 128..131, "display")
        c == RegisterMany(disp, {56}, "cbr")
        b == RegisterMany(c, {57}, "bbr")
    IN  RegisterMany(b, {58}, "cbar")

Built == read_handlers = WiredHandlers /\ write_handlers = WiredHandlers

\* BNS.__init__ without audio: the peripherals, _setup_io, and the SSI-263
\* IRQ callback. The keyboard is the one BrailleKeyboard defines: built from
\* its port alone, and with no set_irq_callback it holds no callback.
BnsConstruct ==
    /\ DOMAIN read_handlers = {} /\ DOMAIN write_handlers = {}
    /\ NewChip
    /\ read_handlers' = WiredHandlers
    /\ write_handlers' = WiredHandlers
    /\ dots' = 0
    /\ buffer' = [i \in 1..Cells |-> 0]
    /\ cursor' = 0
    /\ wd_counter' = 0
    /\ io_last' = [op |-> "construct", port |-> 0, value |-> 0,
                   handler |-> "none", rh |-> "none", wh |-> "none"]
    /\ io_ret' = None
    /\ irq_calls' = {}
    /\ UNCHANGED memVars

\* BrailleKeyboard.press(dots)
KbdPress(d) ==
    /\ dots' = MaskByte(d)
    /\ io_last' = [op |-> "press", port |-> 0, value |-> d,
                   handler |-> "none", rh |-> "none", wh |-> "none"]
    /\ io_ret' = None
    /\ irq_calls' = {}
    /\ UNCHANGED <<read_handlers, write_handlers, buffer, cursor, wd_counter,
                   memVars, chipVars>>

\* BrailleKeyboard.release()
KbdRelease ==
    /\ dots' = 0
    /\ io_last' = [op |-> "release", port |-> 0, value |-> 0,
                   handler |-> "none", rh |-> "none", wh |-> "none"]
    /\ io_ret' = None
    /\ irq_calls' = {}
    /\ UNCHANGED <<read_handlers, write_handlers, buffer, cursor, wd_counter,
                   memVars, chipVars>>

\* Variant of MadeIrqCallback: the line below the one asked for is driven.
MadeIrqCallback_LineBelow(line, state) == <<line - 1, state>>

\* The callback _make_irq_callback(line, source) returns, called with state:
\* the cpu.set_irq(line, state) call it makes.
MadeIrqCallback(line, state) == <<line, state>>

\* The body of the loop of BNS.run after cpu.run, with cycles_run already
\* advanced to cycles: set_cycle_count, check_pending_irq and the flush of
\* the phoneme log.
LoopBody(cycles) ==
    /\ current_cycle' = cycles
    /\ IF IrqDue(cycles)
       THEN /\ pending_irq_cycle' = PendingAfterFire
            /\ speaking' = FALSE
            /\ irq_asserts' = IF irq_callback THEN irq_asserts + 1
                                              ELSE irq_asserts
            /\ irq_calls' = IF irq_callback
                            THEN {MadeIrqCallback(SsiIrqLine, 1)}
                            ELSE {}
       ELSE /\ UNCHANGED <<pending_irq_cycle, speaking, irq_asserts>>
            /\ irq_calls' = {}
    /\ phoneme_log' = <<>>
    /\ chip_last' = [op |-> "run_chunk", port |-> 0, value |-> 0]
    /\ chip_ret' = None
    /\ io_last' = [op |-> "run_chunk", port |-> 0, value |-> 0,
                   handler |-> "none", rh |-> "none", wh |-> "none"]
    /\ io_ret' = None
    /\ UNCHANGED <<chipRegs, irq_enabled, current_phoneme, irq_callback,
                   emit_deadline, emit_kind, standby_since_emit,
                   read_handlers, write_handlers, periph, memVars>>

\* n iterations of the loop of BNS.run in which the firmware does no port
\* I/O: cpu.run(chunk) each time, taken to run the whole chunk, then the
\* rest of the body. The first check at or past the scheduled cycle fires,
\* the later ones find nothing pending. The cycle count is capped at MaxRuns
\* runs of 400 chunks.
RunChunk(n) ==
    /\ current_cycle < MaxRuns * 400 * ChunkCycles
    /\ LoopBody(current_cycle + n * ChunkCycles)

\* Ports the firmware reads and <<port, value>> pairs it writes: SSI-263
\* DURPHON and CTRLAMP, the display and watchdog port, the keyboard, CBR and
\* the keyclr port. Chords pressed: one in range and one over-wide.
BnsReadPorts == {128, 129, 64, 196, 56, 32}
BnsWriteInputs == {<<192, 197>>, <<195, 127>>, <<195, 128>>, <<128, 65>>,
                   <<64, 9>>, <<56, 1>>, <<32, 0>>}
PressInputs == {9, 256 + 3}
IterInputs == {400}

BnsNext ==
    \/ BnsConstruct /\ UNCHANGED offBus
    \/ \E port \in BnsReadPorts : Built /\ BusRead(port) /\ UNCHANGED offBus
    \/ \E w \in BnsWriteInputs :
          Built /\ BusWrite(w[1], w[2]) /\ UNCHANGED offBus
    \/ \E d \in PressInputs : Built /\ KbdPress(d) /\ UNCHANGED offBus
    \/ Built /\ KbdRelease /\ UNCHANGED offBus
    \/ \E n \in IterInputs : Built /\ RunChunk(n) /\ UNCHANGED offBus

MaxChunks == 60

\* One iteration of the loop of BNS.run with max_cycles = 0: cpu.run(1000),
\* taken to run exactly the chunk, then the rest of the body. The cycle
\* count is capped at MaxChunks chunks.
RunOneChunk ==
    /\ current_cycle < MaxChunks * ChunkCycles
    /\ LoopBody(current_cycle + ChunkCycles)

\* <<port, value>> pairs the firmware writes while a chunk runs: RATEINF
\* with the fastest rate (4 ms, 49152 cycles, in duration mode 3), CTRLAMP
\* with CTL clear and set, DURPHON with IRQ mode 3 and with IRQ mode 0.
DeferWrites == {<<194, 240>>, <<195, 127>>, <<195, 128>>, <<192, 197>>,
                <<192, 5>>}

\* The wired emulator running chunk by chunk, with the firmware's SSI-263
\* writes falling inside the chunks.
DeferNext ==
    \/ BnsConstruct /\ UNCHANGED offBus
    \/ \E w \in DeferWrites :
          Built /\ BusWrite(w[1], w[2]) /\ UNCHANGED offBus
    \/ Built /\ RunOneChunk /\ UNCHANGED offBus

-----------------------------------------------------------------------------
(* Audio player                                                            *)

MaxQueue == 2

\* blocksize: the frames one audio callback has to deliver.
Frames == 512

\* AudioPlayer.__init__
PlayerInit ==
    /\ stream = FALSE
    /\ queue = <<>>
    /\ player_buffer = 0
    /\ playing = FALSE
    /\ lock = "free"
    /\ player_last = [op |-> "init", ret |-> FALSE]
    /\ last_full = FALSE

\* AudioPlayer.start(): opens the stream unless one is open.
PlayerStart ==
    /\ stream' = TRUE
    /\ player_last' = [op |-> "start", ret |-> FALSE]
    /\ UNCHANGED <<queue, player_buffer, playing, lock, last_full>>

\* AudioPlayer.stop(): returns at once without a stream; otherwise
\* stream.stop() returns when a callback in progress has returned, and then
\* the queue is drained and, under the lock, buffer and _playing are cleared.
PlayerStop ==
    /\ lock = "free"
    /\ IF stream
       THEN /\ stream' = FALSE
            /\ queue' = <<>>
            /\ player_buffer' = 0
            /\ playing' = FALSE
            /\ last_full' = FALSE
       ELSE UNCHANGED <<stream, queue, player_buffer, playing, last_full>>
    /\ player_last' = [op |-> "stop", ret |-> FALSE]
    /\ UNCHANGED lock

\* Variant of PlayReady: play waits for the buffer mutex.
PlayReady_Locked == lock = "free"

\* What queue.put(samples) waits for: nothing, the queue has no maximum size
\* and play never takes self._lock.
PlayReady == TRUE

\* AudioPlayer.play(samples) with len(samples) = n. The model stops enqueuing
\* at MaxQueue arrays.
PlayerPlay(n) ==
    /\ PlayReady
    /\ Len(queue) < MaxQueue
    /\ queue' = Append(queue, n)
    /\ player_last' = [op |-> "play", ret |-> FALSE]
    /\ UNCHANGED <<stream, player_buffer, playing, lock, last_full>>

\* Variant of IsPlayingResult: the queue is not looked at.
IsPlayingResult_NoQueue == playing \/ player_buffer > 0

IsPlayingResult == playing \/ queue # <<>> \/ player_buffer > 0

\* AudioPlayer.is_playing(): takes the lock, computes, releases.
PlayerIsPlaying ==
    /\ lock = "free"
    /\ player_last' = [op |-> "is_playing", ret |-> IsPlayingResult]
    /\ UNCHANGED <<stream, queue, player_buffer, playing, lock, last_full>>

\* _audio_callback on the device's thread: it takes the lock,
CallbackEnter ==
    /\ stream
    /\ lock = "free"
    /\ lock' = "callback"
    /\ player_last' = [op |-> "callback_enter", ret |-> FALSE]
    /\ UNCHANGED <<stream, queue, player_buffer, playing, last_full>>

\* moves one array from the queue to the buffer while the buffer is short of
\* a block and the queue has one,
CallbackFetch ==
    /\ lock = "callback"
    /\ player_buffer < Frames
    /\ queue # <<>>
    /\ player_buffer' = player_buffer + Head(queue)
    /\ queue' = Tail(queue)
    /\ player_last' = [op |-> "callback_fetch", ret |-> FALSE]
    /\ UNCHANGED <<stream, playing, lock, last_full>>

\* Variant of CallbackOutput: a callback that runs short still reports
\* playing.
CallbackOutput_StaysPlaying ==
    /\ lock = "callback"
    /\ player_buffer >= Frames \/ queue = <<>>
    /\ player_buffer' = IF player_buffer >= Frames
                        THEN player_buffer - Frames ELSE 0
    /\ playing' = TRUE
    /\ last_full' = (player_buffer >= Frames)
    /\ lock' = "free"
    /\ player_last' = [op |-> "callback_output", ret |-> FALSE]
    /\ UNCHANGED <<stream, queue>>

\* and then delivers a full block, or what it has padded with silence, and
\* releases the lock.
CallbackOutput ==
    /\ lock = "callback"
    /\ player_buffer >= Frames \/ queue = <<>>
    /\ IF player_buffer >= Frames
       THEN /\ player_buffer' = player_buffer - Frames
            /\ playing' = TRUE
            /\ last_full' = TRUE
       ELSE /\ player_buffer' = 0
            /\ playing' = FALSE
            /\ last_full' = FALSE
    /\ lock' = "free"
    /\ player_last' = [op |-> "callback_output", ret |-> FALSE]
    /\ UNCHANGED <<stream, queue>>

\* What the player's operations leave alone.
offPlayer == <<memVars, chipVars, calcVars, synVars, busVars, loopVars,
               fn_in, fn_out>>

\* Arrays of less than a block, of more than two blocks, and an empty one.
PlayerNext ==
    \/ PlayerStart /\ UNCHANGED <<offPlayer, flow>>
    \/ PlayerStop /\ UNCHANGED <<offPlayer, flow>>
    \/ \E n \in {0, 300, 1102} :
          PlayerPlay(n) /\ UNCHANGED <<offPlayer, flow>>
    \/ PlayerIsPlaying /\ UNCHANGED <<offPlayer, flow>>
    \/ CallbackEnter /\ UNCHANGED <<offPlayer, flow>>
    \/ CallbackFetch /\ UNCHANGED <<offPlayer, flow>>
    \/ CallbackOutput /\ UNCHANGED <<offPlayer, flow>>

-----------------------------------------------------------------------------
(* Audio player: the samples                                               *)

\* Samples are numbered 1, 2, ... in the order play() receives them, and an
\* array of samples is held as its runs of consecutive numbers, <<first,
\* last>> each: an array of n new samples is one run, the empty array has
\* none.

MaxPlays == 3

RECURSIVE RunsLen(_)
\* len(array)
RunsLen(r) ==
    IF r = <<>> THEN 0 ELSE (Head(r)[2] - Head(r)[1] + 1) + RunsLen(Tail(r))

\* np.concatenate([r, s])
RunsCat(r, s) ==
    IF r = <<>> THEN s
    ELSE IF s = <<>> THEN r
    ELSE IF r[Len(r)][2] + 1 = s[1][1]
         THEN SubSeq(r, 1, Len(r) - 1) \o <<<<r[Len(r)][1], s[1][2]>>>>
              \o Tail(s)
         ELSE r \o s

RECURSIVE RunsTake(_, _)
\* array[:n]
RunsTake(r, n) ==
    IF n = 0 \/ r = <<>> THEN <<>>
    ELSE LET size == Head(r)[2] - Head(r)[1] + 1
         IN  IF size <= n
             THEN RunsCat(<<Head(r)>>, RunsTake(Tail(r), n - size))
             ELSE <<<<Head(r)[1], Head(r)[1] + n - 1>>>>

\* Variant of RunsDrop: the samples taken stay in the array.
RunsDrop_Keep(r, n) == r

RECURSIVE RunsDrop(_, _)
\* array[n:]
RunsDrop(r, n) ==
    IF n = 0 \/ r = <<>> THEN r
    ELSE LET size == Head(r)[2] - Head(r)[1] + 1
         IN  IF size <= n
             THEN RunsDrop(Tail(r), n - size)
             ELSE <<<<Head(r)[1] + n, Head(r)[2]>>>> \o Tail(r)

\* AudioPlayer.__init__: nothing enqueued, nothing buffered, nothing
\* delivered.
FlowInit ==
    flow = [queue |-> <<>>, buffer |-> <<>>, out |-> <<>>, enq |-> 0,
            plays |-> 0, block |-> [data |-> <<>>, zeros |-> 0]]

\* AudioPlayer.play(samples) with n new samples; float32 samples are put on
\* the queue as they are. The model stops at MaxPlays calls.
FlowPlay(n) ==
    /\ flow.plays < MaxPlays
    /\ PlayerPlay(n)
    /\ flow' = [flow EXCEPT
                   !.queue = Append(@, IF n = 0 THEN <<>>
                                       ELSE <<<<flow.enq + 1, flow.enq + n>>>>),
                   !.enq = @ + n,
                   !.plays = @ + 1]

\* chunk = self._queue.get_nowait(); self._buffer = np.concatenate(...)
FlowFetch ==
    /\ CallbackFetch
    /\ flow' = [flow EXCEPT !.buffer = RunsCat(@, Head(flow.queue)),
                            !.queue = Tail(@)]

\* The output branches of _audio_callback: block is what the callback wrote
\* to outdata, the samples first and then the zeros.
FlowOutput ==
    /\ CallbackOutput
    /\ IF RunsLen(flow.buffer) >= Frames
       THEN flow' = [flow EXCEPT
                        !.out = RunsCat(@, RunsTake(flow.buffer, Frames)),
                        !.block = [data |-> RunsTake(flow.buffer, Frames),
                                   zeros |-> 0],
                        !.buffer = RunsDrop(@, Frames)]
       ELSE flow' = [flow EXCEPT
                        !.out = RunsCat(@, flow.buffer),
                        !.block = [data |-> flow.buffer,
                                   zeros |-> Frames - RunsLen(flow.buffer)],
                        !.buffer = <<>>]

\* play() calls and device callbacks on a started player, with arrays of
\* less than a block, of more than two blocks, and an empty one.
FlowNext ==
    \/ PlayerStart /\ UNCHANGED <<offPlayer, flow>>
    \/ \E n \in {0, 300, 1102} : FlowPlay(n) /\ UNCHANGED offPlayer
    \/ CallbackEnter /\ UNCHANGED <<offPlayer, flow>>
    \/ FlowFetch /\ UNCHANGED offPlayer
    \/ FlowOutput /\ UNCHANGED offPlayer

-----------------------------------------------------------------------------
(* The execution loop                                                      *)

MaxIters == 3

\* BNS.run not called yet, and no function applied on its own.
HostIdle ==
    /\ max_cycles = None
    /\ cycles_run = 0
    /\ chunk = None
    /\ halted = FALSE
    /\ loop_pc = "idle"
    /\ fn_in = <<"none">>
    /\ fn_out = None

\* Variant of ChunkFor: always a whole chunk.
ChunkFor_Whole(budget, run_so_far) == ChunkCycles

\* chunk = 1000 if max_cycles == 0 else min(1000, max_cycles - cycles_run)
ChunkFor(budget, run_so_far) ==
    IF budget = 0 THEN ChunkCycles ELSE Min(ChunkCycles, budget - run_so_far)

\* The while condition of BNS.run.
LoopGoesOn == (max_cycles = 0 \/ cycles_run < max_cycles) /\ ~halted

\* Variant of Finally: the audio is left as it is.
Finally_Nothing == UNCHANGED playerVars

\* finally: if self.synth: self.synth.stop(), which stops the player.
Finally == IF synth_bound THEN PlayerStop ELSE UNCHANGED playerVars

\* BNS.run(max_cycles) up to the loop, on an emulator built with audio or
\* without: synth.start() starts the player.
RunStart(budget, audio) ==
    /\ loop_pc = "idle"
    /\ max_cycles' = budget
    /\ cycles_run' = 0
    /\ synth_bound' = audio
    /\ IF audio THEN PlayerStart ELSE UNCHANGED playerVars
    /\ loop_pc' = "loop"
    /\ UNCHANGED <<chunk, halted, syn, played, run, script, snaps, replay_pos,
                   memVars, chipVars, calcVars, busVars, flow, fn_in, fn_out>>

\* One iteration. cpu.run(chunk) returns actual cycles, with the CPU halted
\* or not, and the rest of the body runs; or it is left by a
\* KeyboardInterrupt or another exception, which goes through the finally
\* clause. The model stops iterating at MaxIters chunks.
RunIterate(actual, outcome) ==
    /\ loop_pc = "loop"
    /\ LoopGoesOn
    /\ cycles_run < MaxIters * ChunkCycles
    /\ chunk' = ChunkFor(max_cycles, cycles_run)
    /\ actual >= 1 /\ actual <= chunk'
    /\ IF outcome \in {"ran", "halt"}
       THEN /\ cycles_run' = cycles_run + actual
            /\ halted' = (outcome = "halt")
            /\ LoopBody(cycles_run')
            /\ UNCHANGED <<loop_pc, playerVars>>
       ELSE /\ Finally
            /\ loop_pc' = outcome
            /\ UNCHANGED <<cycles_run, halted, memVars, chipVars, busVars>>
    /\ UNCHANGED <<max_cycles, calcVars, synVars, flow, fn_in, fn_out>>

\* The while condition is false: the finally clause, and run returns.
RunExit ==
    /\ loop_pc = "loop"
    /\ ~LoopGoesOn
    /\ Finally
    /\ loop_pc' = "returned"
    /\ UNCHANGED <<max_cycles, cycles_run, chunk, halted, memVars, chipVars,
                   calcVars, synVars, busVars, flow, fn_in, fn_out>>

\* Budgets: none, one cycle, and budgets that are and are not a multiple of
\* the chunk. Cycles cpu.run returns: one, all that was asked for, and 999.
LoopNext ==
    \/ \E budget \in {0, 1, 1500, 2000}, audio \in BOOLEAN :
          RunStart(budget, audio)
    \/ \E actual \in {1, 999, ChunkFor(max_cycles, cycles_run)},
          outcome \in {"ran", "halt", "interrupted", "raised"} :
          RunIterate(actual, outcome)
    \/ RunExit

-----------------------------------------------------------------------------
(* ROM loader and phoneme lookup                                           *)

\* Variant of FirmwareSlice: the package magic is looked at before the
\* extension.
FirmwareSlice_MagicFirst(file) ==
    IF file.magic /\ file.len > 12288
    THEN [from |-> 12288, len |-> Min(file.len - 12288, RomSize)]
    ELSE [from |-> 0, len |-> Min(file.len, RomSize)]

\* The part of the file BNS.load_rom hands to memory.load_rom, as its first
\* byte's offset in the file and its length. file.bin: the suffix is .bin in
\* any case; file.magic: len(data) >= 5 and data[2:5] == b'BNS'.
FirmwareSlice(file) ==
    IF file.bin /\ file.len \in {65536, RomSize}
    THEN [from |-> 0, len |-> file.len]
    ELSE LET skip == IF file.magic /\ file.len > 12288 THEN 12288 ELSE 0
         IN  [from |-> skip, len |-> Min(file.len - skip, 256 * 1024)]

\* BNS.load_rom(path): memory.load_rom(data) at the default offset 0.
BnsLoadRom(file) ==
    /\ LoadRom([len |-> FirmwareSlice(file).len, seed |-> file.seed], 0)
    /\ fn_in' = <<"load_rom", file>>
    /\ fn_out' = FirmwareSlice(file)

\* Sample rate of the synth, and the entries of PHONEME_INFO.
SampleRate == 22050
PhonemeCount == 62

\* Variant of GetPhonemeAudio: code 1 is not mapped to code 2.
GetPhonemeAudio_NoAlias(phoneme, amplitude) ==
    IF phoneme = 0
    THEN [kind |-> "silence", len |-> (SampleRate * 5) \div 100,
          index |-> None, amplitude |-> None]
    ELSE IF phoneme - 2 < 0 \/ phoneme - 2 >= PhonemeCount
    THEN [kind |-> "silence", len |-> 100, index |-> None,
          amplitude |-> None]
    ELSE [kind |-> "samples", len |-> None, index |-> phoneme - 2,
          amplitude |-> amplitude]

\* SSI263Synth.get_phoneme_audio(phoneme, amplitude): silence of a length, or
\* the samples of a data index put through the DSP chain with the arguments
\* given (the other arguments at their defaults).
GetPhonemeAudio(phoneme, amplitude) ==
    LET data_index == IF phoneme = 1 THEN 0 ELSE phoneme - 2
    IN  IF phoneme = 0
        THEN [kind |-> "silence", len |-> (SampleRate * 5) \div 100,
              index |-> None, amplitude |-> None]
        ELSE IF data_index < 0 \/ data_index >= PhonemeCount
        THEN [kind |-> "silence", len |-> 100, index |-> None,
              amplitude |-> None]
        ELSE [kind |-> "samples", len |-> None, index |-> data_index,
              amplitude |-> amplitude]

MaxSamples == 4

\* Variant of TimeStretch: an input shorter than one group gives no samples.
TimeStretch_NoFallback(samples, rate, duration) ==
    IF duration \in {0, 1}
    THEN samples
    ELSE LET avg_count == IF duration = 2 THEN 2 ELSE 4
         IN  [k \in 1..(Len(samples) \div avg_count) |->
                 (samples[(k - 1) * avg_count + 1]
                  + samples[(k - 1) * avg_count + 2]
                  + IF avg_count = 4
                    THEN samples[(k - 1) * avg_count + 3]
                         + samples[(k - 1) * avg_count + 4]
                    ELSE 0) \div avg_count]

\* time_stretch(samples, rate, duration) of qns/synth/dsp.py on int16
\* samples: the sums are taken in int32 and numpy's // rounds down, as \div
\* does.
TimeStretch(samples, rate, duration) ==
    IF duration \in {0, 1}
    THEN samples
    ELSE LET avg_count == IF duration = 2 THEN 2 ELSE 4
             out_len == Len(samples) \div avg_count
             at(k, i) == samples[(k - 1) * avg_count + i]
             sum(k) == at(k, 1) + at(k, 2)
                       + IF avg_count = 4 THEN at(k, 3) + at(k, 4) ELSE 0
         IN  IF out_len = 0
             THEN samples
             ELSE [k \in 1..out_len |-> sum(k) \div avg_count]

\* Files: .bin or not, with the package magic or not, of lengths around the
\* image offset and the ROM size, and one below five bytes that cannot hold
\* the magic. Phoneme codes: all 6-bit codes and some outside them. Sample
\* arrays: every array of up to MaxSamples samples drawn from the ends of the
\* int16 range and -1, with both ends of the rate range and every duration
\* mode.
PureNext ==
    \/ \E bin \in BOOLEAN, magic \in BOOLEAN,
          len \in {4, 12288, 12289, 65536, RomSize, RomSize + 1,
                   RomSize + 12288 + 7} :
          /\ magic => len >= 5
          /\ BnsLoadRom([bin |-> bin, magic |-> magic, len |-> len,
                         seed |-> 17])
          /\ UNCHANGED <<chipVars, calcVars, synVars, busVars, loopVars,
                         playerVars, flow>>
    \/ \E n \in 0..MaxSamples, rate \in {0, 15}, duration \in 0..3 :
          \E samples \in [1..n -> {0 - 32768, 0 - 1, 32767}] :
             /\ fn_in' = <<"time_stretch", samples, rate, duration>>
             /\ fn_out' = TimeStretch(samples, rate, duration)
             /\ UNCHANGED <<memVars, chipVars, calcVars, synVars, busVars,
                            loopVars, playerVars, flow>>
    \/ \E phoneme \in (0 - 2)..66, amplitude \in {7, 15} :
          /\ fn_in' = <<"get_phoneme_audio", phoneme, amplitude>>
          /\ fn_out' = GetPhonemeAudio(phoneme, amplitude)
          /\ UNCHANGED <<memVars, chipVars, calcVars, synVars, busVars,
                         loopVars, playerVars, flow>>

-----------------------------------------------------------------------------
(* Specifications                                                          *)

Init ==
    MemInit /\ ChipInit /\ CalcIdle /\ SynthIdle /\ BusInit /\ PlayerInit
    /\ FlowInit /\ HostIdle

MemSpec == Init /\ [][MemNext]_vars

ChipSpec == Init /\ [][ChipNext]_vars

CalcStart ==
    MemInit /\ ChipInit /\ CalcInit /\ SynthIdle /\ BusInit /\ PlayerInit
    /\ FlowInit /\ HostIdle
CalcSpec == CalcStart /\ [][CalcNext]_vars

SynthSpec == Init /\ [][SynthNext]_vars

BusSpec == Init /\ [][BusNext]_vars

BnsSpec == Init /\ [][BnsNext]_vars

MmuSpec == Init /\ [][MmuNext]_vars

DeferSpec == Init /\ [][DeferNext]_vars

FlowSpec == Init /\ [][FlowNext]_vars

\* FlowSpec with the device invoking the callback again and again and each
\* callback running to its end.
DrainSpec ==
    /\ Init /\ [][FlowNext]_vars
    /\ WF_vars(CallbackEnter /\ UNCHANGED <<offPlayer, flow>>)
    /\ WF_vars(FlowFetch /\ UNCHANGED offPlayer)
    /\ WF_vars(FlowOutput /\ UNCHANGED offPlayer)

PlayerSpec == Init /\ [][PlayerNext]_vars

LoopSpec == Init /\ [][LoopNext]_vars

PureSpec == Init /\ [][PureNext]_vars

-----------------------------------------------------------------------------
(* Memory properties, checked under MemSpec                                *)

OverlayValue(a) ==
    IF a \in written_addrs THEN ram[a]
    ELSE IF rom_loaded /\ a < rom_len THEN rom[a]
    ELSE IF a < RamSize THEN ram[a]
    ELSE 255

C2_ReadFollowsOverlay ==
    mem_last.op = "read" => mem_ret = OverlayValue(mem_last.addr)

C2_WriteLeavesOtherReads ==
    \A addr \in AddrInputs, value \in ValueInputs :
        MemWrite(addr, value) =>
            \A b \in Probes \ {MaskAddr(addr)} : ReadValue(b)' = ReadValue(b)

\* C2: read(a) returns ram[a] if a is in the written-set, else rom[a] if ROM
\* is loaded and a is inside the ROM buffer, else ram[a] if a is inside RAM,
\* else 0xFF; and a write to a leaves what a read of any other address
\* returns unchanged.
C2_ShadowOverlay ==
    []C2_ReadFollowsOverlay /\ [][C2_WriteLeavesOtherReads]_vars

\* A read of the unwritten ROM address 0x100 returned its ROM byte after
\* another address had been written.
C2_Witness ==
    /\ mem_last = [op |-> "read", addr |-> 256]
    /\ rom_loaded /\ 256 \notin written_addrs /\ written_addrs # {}
    /\ mem_ret = rom[256] /\ mem_ret = 17

C3_WriteMasked ==
    \A addr \in AddrInputs, value \in ValueInputs :
        MemWrite(addr, value) =>
            IF addr % AddrSpace < RamSize
            THEN /\ ram'[addr % AddrSpace] = value % 256
                 /\ addr % AddrSpace \in written_addrs'
            ELSE UNCHANGED <<ram, rom, rom_len, rom_loaded, written_addrs>>

C3_ReadMasked ==
    \A addr \in AddrInputs :
        MemRead(addr) =>
            /\ mem_ret' \in 0..255
            /\ mem_ret' = OverlayValue(addr % AddrSpace)
            /\ (addr % AddrSpace >= RamSize /\ addr % AddrSpace >= rom_len
                    => mem_ret' = 255)

\* C3: read and write act on the address modulo 2^20 and are defined for
\* every address; a write whose masked address is outside RAM leaves ram, rom
\* and the written-set unchanged; a read whose masked address is outside
\* both ROM and RAM returns 0xFF.
C3_TotalMasked == [][C3_WriteMasked /\ C3_ReadMasked]_vars

\* A read of address -1 (0xFFFFF, outside ROM and RAM) returned 0xFF after a
\* write to it was dropped.
C3_Witness ==
    /\ mem_last = [op |-> "read", addr |-> AddrSpace - 1]
    /\ last_write[AddrSpace - 1] # None
    /\ (AddrSpace - 1) \notin written_addrs
    /\ mem_ret = 255

\* C4: a read, write or set_mmu step never changes the ROM buffer, never
\* removes an address from the written-set, and only a write adds one.
C4_RomFixedWrittenGrows ==
    [][mem_last'.op \in {"read", "write", "set_mmu"} =>
          /\ rom' = rom /\ rom_len' = rom_len /\ rom_loaded' = rom_loaded
          /\ written_addrs \subseteq written_addrs'
          /\ (mem_last'.op # "write" => written_addrs' = written_addrs)]_vars

\* After load_rom and two writes to different addresses, set_mmu ran.
C4_Witness ==
    /\ rom_loaded
    /\ Cardinality(written_addrs) >= 2
    /\ mem_last.op = "set_mmu"
    /\ cbr = 32

\* C20: BNS.reset() sets CBAR=0xF0, CBR=0 and BBR=0 whatever they were, and
\* leaves the RAM contents, the ROM contents and the written-set unchanged.
C20_ResetRestoresMmuOnly ==
    [][mem_last'.op = "reset" =>
          /\ cbar' = 240 /\ cbr' = 0 /\ bbr' = 0
          /\ ram' = ram
          /\ rom' = rom /\ rom_len' = rom_len /\ rom_loaded' = rom_loaded
          /\ written_addrs' = written_addrs]_vars

\* reset ran with ROM loaded and address 0x100 written with 0x55: the MMU
\* registers are back at their power-on values and the byte is still there.
C20_Witness ==
    /\ mem_last.op = "reset"
    /\ <<cbr, bbr, cbar>> = <<0, 0, 240>>
    /\ rom_loaded /\ 256 \in written_addrs /\ ram[256] = 85

-----------------------------------------------------------------------------
(* SSI-263 properties, checked under ChipSpec                              *)

\* C5 states that pending_irq_cycle is set if and only if speaking and
\* irq_enabled both hold. This is its "only if" direction: whenever
\* pending_irq_cycle is set, speaking and irq_enabled are both true.
C5_PendingOnlyIfSpeakingIrq ==
    pending_irq_cycle # None => (speaking /\ irq_enabled)

\* C6: after a write to CTRLAMP with CTL=1, speaking is false and
\* pending_irq_cycle is unset.
C6_StandbyClearsPending ==
    /\ chip_last.op = "write"
    /\ chip_last.port - BasePort = RegCtrlamp
    /\ CtlBit(chip_last.value)
    => (~speaking /\ pending_irq_cycle = None)

\* C7: once standby has been written while an IRQ was scheduled and its cycle
\* not yet reached, no check_pending_irq call asserts the IRQ line until the
\* next emission.
C7_StandbyCancelsIrq == standby_since_emit => irq_asserts = 0

\* What C8 asks of a check_pending_irq call that follows an emission of one
\* of the given kinds with no register write in between.
C8_Step(kinds) ==
    \A c \in CheckInputs :
        CheckPendingIrq(c) /\ emit_kind \in kinds =>
            /\ (c < emit_deadline => irq_asserts' = irq_asserts)
            /\ (c >= emit_deadline /\ irq_asserts = 0 => irq_asserts' = 1)
            /\ (irq_asserts >= 1 => irq_asserts' = irq_asserts)

C9_PowerOn == chipRegs = <<192, 0, 0, 128, 255>>

C9_WriteMirrors ==
    LET l == chip_last'
        reg == l.port - BasePort
    IN  IF l.op = "write" /\ reg \in 0..4
        THEN /\ chipRegs'[reg + 1] = l.value
             /\ \A r \in (0..4) \ {reg} : chipRegs'[r + 1] = chipRegs[r + 1]
        ELSE chipRegs' = chipRegs

C9_ReadStatus ==
    chip_last.op = "read" =>
        chip_ret = IF chip_last.port - BasePort = 4
                   THEN (IF speaking THEN 128 ELSE 0)
                   ELSE 255

C9_ReadPure == chip_last'.op = "read" => UNCHANGED chipState

\* C9: each register byte is its power-on value until written and then the
\* value of the last write to it; a read of register 4 returns 0x80 exactly
\* when speaking and 0x00 otherwise; other reads return 0xFF; a read changes
\* no chip state.
C9_RegistersMirrorWrites ==
    /\ C9_PowerOn
    /\ []C9_ReadStatus
    /\ [][C9_WriteMirrors /\ C9_ReadPure]_vars

\* All five registers hold written values and a read of register 4 returned
\* 0x80 while speaking.
C9_Witness ==
    /\ chipRegs = <<197, 18, 240, 127, 32>>
    /\ chip_last = [op |-> "read", port |-> 196, value |-> 0]
    /\ speaking /\ chip_ret = 128

C10_Emitted == Len(phoneme_log') = Len(phoneme_log) + 1

C10_Step ==
    LET l == chip_last'
        reg == l.port - BasePort
        by_durphon == reg = RegDurphon /\ ~CtlBit(ctrl_art_amp)
        by_wake == /\ reg = RegCtrlamp
                   /\ CtlBit(ctrl_art_amp) /\ ~CtlBit(l.value)
    IN  /\ C10_Emitted <=> (l.op = "write" /\ (by_durphon \/ by_wake))
        /\ C10_Emitted =>
              phoneme_log' = Append(phoneme_log,
                                    IF reg = RegDurphon THEN l.value % 64
                                    ELSE duration_phoneme % 64)

\* C10: a step appends a phoneme to the log exactly when it is a DURPHON
\* write with CTL=0 (appending the low 6 bits of the value) or a CTRLAMP write
\* taking CTL from 1 to 0 (appending the low 6 bits of the stored DURPHON).
C10_EmissionOnlyOnTwoWrites == [][C10_Step]_vars

\* A wake-up emitted the stored phoneme 0 and a DURPHON write then emitted 5.
C10_Witness ==
    /\ phoneme_log = <<0, 5>>
    /\ chip_last = [op |-> "write", port |-> 192, value |-> 197]

\* The step is a register write that emits: DURPHON with CTL=0, or CTRLAMP
\* taking CTL from 1 to 0.
EmittingWrite ==
    LET l == chip_last'
        reg == l.port - BasePort
    IN  /\ l.op = "write"
        /\ \/ reg = RegDurphon /\ ~CtlBit(ctrl_art_amp)
           \/ reg = RegCtrlamp /\ CtlBit(ctrl_art_amp) /\ ~CtlBit(l.value)

\* The phoneme code an emitting write emits.
EmittedCode ==
    IF chip_last'.port - BasePort = RegDurphon
    THEN chip_last'.value % 64
    ELSE duration_phoneme % 64

\* What C11 asks of an emitting write; with_callback tells whether the
\* scheduling is asked only of a chip that has an IRQ callback.
C11_Effects(with_callback) ==
    EmittingWrite =>
        /\ phoneme_log' = Append(phoneme_log, EmittedCode)
        /\ speaking'
        /\ (irq_enabled' /\ (with_callback => irq_callback) =>
               /\ pending_irq_cycle' =
                      current_cycle
                      + DurationCycles(rate_inflection', duration_phoneme')
               /\ (/\ duration_phoneme' = 197 /\ rate_inflection' = 0
                   /\ current_cycle = 0
                   => pending_irq_cycle' = 786432))

\* current_cycle is the value last given to set_cycle_count.
C11_CycleCount ==
    /\ \A c \in CycleInputs : SetCycleCount(c) => current_cycle' = c
    /\ (chip_last'.op # "set_cycle_count" => current_cycle' = current_cycle)

C14_LogInProgramOrder ==
    [][IF EmittingWrite
       THEN /\ Len(phoneme_log') = Len(phoneme_log) + 1
            /\ SubSeq(phoneme_log', 1, Len(phoneme_log)) = phoneme_log
            /\ phoneme_log'[Len(phoneme_log')] = EmittedCode
       ELSE IF chip_last'.op = "flush"
       THEN phoneme_log' = <<>>
       ELSE phoneme_log' = phoneme_log]_vars

\* Phoneme 5 was emitted by a wake-up and phoneme 7 by a later DURPHON write;
\* the log lists them in that order.
C14_Witness ==
    /\ phoneme_log = <<5, 7>>
    /\ chip_last = [op |-> "write", port |-> 192, value |-> 7]

-----------------------------------------------------------------------------
(* Duration formula, checked under CalcSpec                                *)

\* C12: for every rate R, duration mode D and positive clock f the computed
\* duration_cycles is floor(floor(((16-R)*4096)/1023) * (4-D) * f / 1000),
\* is never negative, and is no larger at D=3 than at any other D. With
\* f = 1000 q + r the floor is stated as
\* 1000 (n - ms q) <= ms r < 1000 (n - ms q) + 1000, which needs no product
\* beyond 32 bits; for the clocks where ms * f fits it is also stated directly.
C12_DurationFormula ==
    calc_result # None =>
        LET R == (calc_rateinf \div 16) % 16
            D == (calc_durphon \div 64) % 4
            ms == (((16 - R) * 4096) \div 1023) * (4 - D)
            ms3 == ((16 - R) * 4096) \div 1023
            q == calc_clock \div 1000
            r == calc_clock % 1000
            rest == calc_result - ms * q
        IN  /\ 1000 * rest <= ms * r
            /\ ms * r < 1000 * rest + 1000
            /\ (calc_clock <= 1000000 =>
                   calc_result = (ms * calc_clock) \div 1000)
            /\ calc_result >= 0
            /\ calc_result >= ms3 * q + (ms3 * r) \div 1000

\* Rate 0, duration mode 3 and the 12.288 MHz clock gave 786432 cycles.
C12_Witness ==
    /\ calc_rateinf \div 16 = 0 /\ calc_durphon \div 64 = 3
    /\ calc_clock = 12288000
    /\ calc_result = 786432

-----------------------------------------------------------------------------
(* Synth binding, checked under SynthSpec                                  *)

-----------------------------------------------------------------------------
(* I/O bus properties, checked under BusSpec                               *)

C15_ReadDefault ==
    /\ io_last.op = "read"
    /\ DictGet(read_handlers, io_last.port % 256) = "none"
    => io_ret = 255

C15_Dispatch ==
    LET l == io_last'
        p == l.port % 256
    IN  /\ l.op = "read" => l.handler = DictGet(read_handlers, p)
        /\ l.op = "write" =>
              /\ l.handler = DictGet(write_handlers, p)
              /\ (l.handler = "none" =>
                     UNCHANGED <<periph, chipVars, memVars>>)
              /\ (l.handler = "display" /\ p = DisplayBase /\ cursor < Cells
                     => buffer'[cursor + 1] = l.value % 256)
              /\ (l.handler = "ssi263" =>
                     chip_last' = [op |-> "write", port |-> p,
                                   value |-> l.value % 256])

\* C15: a read of a port with no read handler returns 0xFF; a write to a
\* port with no write handler invokes no handler and changes no peripheral,
\* chip or memory state; the handler looked up is the one of the port's low
\* 8 bits, and a handler is given the low 8 bits of the value.
C15_BusTotal == []C15_ReadDefault /\ [][C15_Dispatch]_vars

\* The write of 0x142 to port 0x180 reached the display as 0x42 on port
\* 0x80, and a read of the unbound port 0x34 returned 0xFF.
C15_Witness ==
    /\ io_last.op = "read" /\ io_last.port = 52 /\ io_last.handler = "none"
    /\ io_ret = 255
    /\ DictGet(write_handlers, 128) = "display"
    /\ DictGet(write_handlers, 256 + 128) = "none"
    /\ buffer[1] = 66

\* What a register call for an 8-bit port leaves bound to the port; exact
\* tells whether a handler left out unbinds.
C16_Bindings(exact) ==
    LET l == io_last'
    IN  l.op = "register" /\ l.port \in 0..255 =>
            /\ DictGet(read_handlers', l.port) =
                   IF exact \/ l.rh # "none" THEN l.rh
                   ELSE DictGet(read_handlers, l.port)
            /\ DictGet(write_handlers', l.port) =
                   IF exact \/ l.wh # "none" THEN l.wh
                   ELSE DictGet(write_handlers, l.port)

C16_Invoked ==
    LET l == io_last'
    IN  /\ l.op = "read" => l.handler = DictGet(read_handlers, l.port % 256)
        /\ l.op = "write" => l.handler = DictGet(write_handlers, l.port % 256)

\* C16 as stated: after register(port, read_handler?, write_handler?) the
\* port is bound to the handlers of that call and to no handler of an
\* earlier call, also when the call leaves one of the two out. It fails: a
\* handler left out keeps the earlier binding.
C16_RegisterOverrides == [][C16_Bindings(TRUE) /\ C16_Invoked]_vars

\* C16, amended: register overrides the 8-bit port's prior binding for each
\* handler the call supplies, and a read or write of the port then invokes
\* the handler supplied; a handler the call leaves out keeps the port's
\* prior binding of that kind.
C16_RegisterOverridesSupplied == [][C16_Bindings(FALSE) /\ C16_Invoked]_vars

\* register(0x80, None, watchdog.write) after the display was bound to 0x80:
\* writes go to the watchdog, reads still to the display.
C16_Witness ==
    /\ io_last.op = "register" /\ io_last.port = 128
    /\ io_last.rh = "none" /\ io_last.wh = "watchdog"
    /\ DictGet(read_handlers, 128) = "display"
    /\ DictGet(write_handlers, 128) = "watchdog"

-----------------------------------------------------------------------------
(* Wired emulator properties, checked under BnsSpec                        *)

\* C17: in the wired emulator a read of port 0x80 is served by the display
\* and a write to port 0x80 is served by the watchdog; the display's buffer
\* and cursor are unaffected by that write.
C17_Port80Overlay ==
    /\ [](Built /\ io_last.op = "read" /\ MaskPort(io_last.port) = DisplayBase
            => io_last.handler = "display")
    /\ [][Built /\ io_last'.op = "write"
                /\ MaskPort(io_last'.port) = DisplayBase
            => /\ io_last'.handler = "watchdog"
               /\ UNCHANGED <<buffer, cursor>>]_vars

\* C18: a read of the keyboard port returns the pressed dots, a port write
\* never changes the dots, and the step on which the dots go from zero to
\* non-zero, and no other step, asserts the keyboard's IRQ line through the
\* registered callback.
C18_KeyboardLatch ==
    /\ [](Built /\ io_last.op = "read" /\ io_last.handler = "keyboard"
            => io_ret = dots)
    /\ [][/\ (io_last'.op = "write" => dots' = dots)
          /\ (dots = 0 /\ dots' # 0
                <=> MadeIrqCallback(KbdIrqLine, 1) \in irq_calls')]_vars

-----------------------------------------------------------------------------
(* Address translation, checked under MmuSpec                              *)

-----------------------------------------------------------------------------
(* Execution loop properties, checked under LoopSpec                       *)

\* C22: with a positive budget and cpu.run(n) returning 1..n cycles, each
\* chunk requested is min(1000, budget - cycles_run), cycles_run never
\* exceeds the budget, every iteration that stays in the loop advances
\* cycles_run (so the loop ends within budget iterations), and run returns
\* only on halt or with the budget used up; with budget 0 every chunk is 1000
\* and run returns only on halt.
C22_LoopStep ==
    LET iterated == loop_pc = "loop" /\ (cycles_run' # cycles_run
                                          \/ loop_pc' \in {"interrupted", "raised"})
    IN  /\ iterated /\ max_cycles > 0
            => chunk' = Min(1000, max_cycles - cycles_run)
        /\ iterated /\ max_cycles = 0 => chunk' = 1000
        /\ loop_pc = "loop" /\ loop_pc' = "loop" => cycles_run' > cycles_run
        /\ loop_pc = "loop" /\ loop_pc' = "returned"
            => halted \/ (max_cycles > 0 /\ cycles_run = max_cycles)

C22_LoopBudget ==
    /\ [](max_cycles > 0 => cycles_run <= max_cycles)
    /\ [][C22_LoopStep]_vars

\* A budget that is not a multiple of the chunk is used up exactly, the last
\* chunk being the remainder.
C22_Witness ==
    /\ loop_pc = "returned"
    /\ max_cycles = 1500
    /\ cycles_run = 1500
    /\ chunk = 500
    /\ ~halted

\* C23: once run has started the audio output, the player's stream is closed
\* on every way of leaving the loop: halt, budget used up, user interrupt, or
\* an exception raised inside a chunk.
C23_AudioStoppedOnExit ==
    /\ [](loop_pc \in {"returned", "interrupted", "raised"} => ~stream)
    /\ [][loop_pc = "loop" /\ stream /\ loop_pc' # "loop"
            => ~stream' /\ player_last'.op = "stop"]_vars

\* Audio was started and an exception inside a chunk left the loop.
C23_Witness ==
    /\ loop_pc = "raised"
    /\ synth_bound
    /\ player_last.op = "stop"
    /\ ~stream
    /\ cycles_run > 0

-----------------------------------------------------------------------------
(* Audio player properties, checked under PlayerSpec                       *)

\* C24: is_playing() returns true if and only if the open device's last
\* callback delivered a full block, or the queue is non-empty, or the
\* internal buffer is non-empty; a player with nothing enqueued and no full
\* block delivered reports not playing.
C24_IsPlayingIff ==
    player_last.op = "is_playing"
        => player_last.ret = ((stream /\ last_full) \/ Len(queue) > 0
                              \/ player_buffer > 0)

\* is_playing() is true with an empty queue because the device's last
\* callback delivered a full block.
C24_Witness ==
    /\ player_last.op = "is_playing"
    /\ player_last.ret
    /\ last_full
    /\ queue = <<>>

\* C25: after stop() returns, whatever start and play calls came before, the
\* queue is empty, the internal buffer is empty, the device is closed and
\* is_playing() would return false.
C25_StopDrains ==
    player_last.op = "stop"
        => /\ queue = <<>>
           /\ player_buffer = 0
           /\ ~stream
           /\ ~(playing \/ Len(queue) > 0 \/ player_buffer > 0)

\* C26: play() can complete in every state, also while the callback holds
\* the buffer mutex, and a play step leaves the mutex as it is; no state
\* is a deadlock: the callback holding the mutex can always go on, and with
\* the mutex free is_playing and stop can complete.
C26_NeverBlocks ==
    /\ [](Len(queue) < MaxQueue
            => ENABLED (PlayerPlay(300) /\ UNCHANGED offPlayer))
    /\ [](IF lock = "callback"
          THEN ENABLED ((CallbackFetch \/ CallbackOutput)
                        /\ UNCHANGED offPlayer)
          ELSE /\ ENABLED (PlayerIsPlaying /\ UNCHANGED offPlayer)
               /\ ENABLED (PlayerStop /\ UNCHANGED offPlayer))
    /\ [][player_last'.op = "play" => lock' = lock]_vars

\* play() completed while the callback held the buffer mutex.
C26_Witness ==
    /\ player_last.op = "play"
    /\ lock = "callback"
    /\ stream

-----------------------------------------------------------------------------
(* ROM loader and phoneme lookup properties, checked under PureSpec        *)

C30_PhonemeMapping ==
    fn_in[1] = "get_phoneme_audio" =>
        LET code == fn_in[2]
            silence(n) == [kind |-> "silence", len |-> n, index |-> None,
                           amplitude |-> None]
        IN  /\ code = 0 => fn_out = silence(1102)
            /\ code = 1 => fn_out = GetPhonemeAudio(2, fn_in[3])
            /\ code \in 1..63 => fn_out.kind = "samples"
            /\ code \in 2..63 => /\ fn_out.index = code - 2
                                  /\ fn_out.index \in 0..61
                                  /\ fn_out.amplitude = fn_in[3]
            /\ code # 0 /\ code # 1 /\ code - 2 \notin 0..61
                   => fn_out = silence(100)

\* Code 1 was looked up and gave the samples of data index 0.
C30_Witness ==
    /\ fn_in[1] = "get_phoneme_audio"
    /\ fn_in[2] = 1
    /\ fn_out.kind = "samples"
    /\ fn_out.index = 0

-----------------------------------------------------------------------------
(* Synth state properties, checked under SynthSpec                         *)

\* The calls made so far on the chip with the synth, and among them the
\* writes to register reg and the byte of the last one.
WritesTo(reg) ==
    {i \in 1..(replay_pos - 1) :
        script[i][1] = "write" /\ script[i][2] = BasePort + reg}
LastWritten(reg) ==
    script[CHOOSE i \in WritesTo(reg) : \A j \in WritesTo(reg) : j <= i][3]

\* C28: after any register writes forwarded from the chip, each decoded
\* field of the synth is the field of the last byte written to its register:
\* phoneme and duration from DURPHON, rate from RATEINF, control,
\* articulation and amplitude from CTRLAMP, filter from FILTER.
C28_SynthMirrors ==
    run = "bound" =>
        /\ WritesTo(RegDurphon) # {}
              => /\ syn.phoneme = LastWritten(RegDurphon) % 64
                 /\ syn.duration = (LastWritten(RegDurphon) \div 64) % 4
        /\ WritesTo(RegRateinf) # {}
              => syn.rate = (LastWritten(RegRateinf) \div 16) % 16
        /\ WritesTo(RegCtrlamp) # {}
              => /\ syn.control = (LastWritten(RegCtrlamp) >= 128)
                 /\ syn.articulation = (LastWritten(RegCtrlamp) \div 16) % 8
                 /\ syn.amplitude = LastWritten(RegCtrlamp) % 16
        /\ WritesTo(RegFilter) # {}
              => syn.filter_freq = LastWritten(RegFilter)

\* C29: once INFLECT and RATEINF have been written, in either order, the
\* synth's inflection is (I11 << 11) | (INFLECT << 3) | I2:I0 of the last
\* bytes written, and it is always within 0..4095.
C29_InflectionMerged ==
    run = "bound" =>
        /\ syn.inflection \in 0..4095
        /\ WritesTo(RegInflect) # {} /\ WritesTo(RegRateinf) # {}
              => syn.inflection =
                     ((LastWritten(RegRateinf) \div 8) % 2) * 2048
                     + LastWritten(RegInflect) * 8
                     + (LastWritten(RegRateinf) % 8)

-----------------------------------------------------------------------------
(* More SSI-263 properties, checked under ChipSpec                         *)

\* C36: in every reachable chip state, the power-on state included,
\* irq_enabled is true exactly when bits 7:6 of the stored DURPHON register
\* are non-zero.
C36_IrqEnabledIffMode ==
    irq_enabled <=> ((duration_phoneme \div 64) % 4 # 0)

\* C38: while a phoneme is being spoken for which no IRQ can have been
\* scheduled (duration mode 0, or no IRQ callback registered), a
\* check_pending_irq call or a write to a register other than CTRLAMP leaves
\* speaking true, a read of register 4 returns 0x80, and speaking goes false
\* only on a CTRLAMP write that sets CTL.
C38_Step ==
    LET unscheduled == speaking /\ (~irq_enabled \/ ~irq_callback)
        ctrlamp_write == /\ chip_last'.op = "write"
                         /\ chip_last'.port = BasePort + RegCtrlamp
    IN  /\ unscheduled /\ ~ctrlamp_write => speaking'
        /\ unscheduled /\ ~speaking'
              => ctrlamp_write /\ chip_last'.value >= 128

C38_UnscheduledKeepsSpeaking ==
    /\ [](speaking /\ chip_last.op = "read"
            /\ chip_last.port = BasePort + RegFilter => chip_ret = 128)
    /\ [][C38_Step]_vars

-----------------------------------------------------------------------------
(* DSP properties, checked under PureSpec                                  *)

\* C31 as stated: time_stretch returns its input for duration modes 0 and 1,
\* floor(len/2) samples for mode 2 whatever the length, floor(len/4) samples
\* for mode 3 on inputs of at least 4 samples, and the rate never matters.
C31_StretchLength ==
    fn_in[1] = "time_stretch" =>
        LET samples == fn_in[2]
            duration == fn_in[4]
        IN  /\ duration \in {0, 1} => fn_out = samples
            /\ duration = 2 => Len(fn_out) = Len(samples) \div 2
            /\ duration = 3 /\ Len(samples) >= 4
                   => Len(fn_out) = Len(samples) \div 4
            /\ fn_out = TimeStretch(samples, 15 - fn_in[3], duration)

\* C31 amended: as above, but mode 2 halves the length only for inputs of at
\* least 2 samples; an input shorter than one group (1 sample in mode 2, fewer
\* than 4 in mode 3) is returned unchanged.
C31_StretchLengthFromOneGroup ==
    fn_in[1] = "time_stretch" =>
        LET samples == fn_in[2]
            duration == fn_in[4]
            group == IF duration = 2 THEN 2 ELSE 4
        IN  /\ duration \in {0, 1} => fn_out = samples
            /\ duration \in {2, 3} /\ Len(samples) >= group
                   => Len(fn_out) = Len(samples) \div group
            /\ duration \in {2, 3} /\ Len(samples) < group
                   => fn_out = samples
            /\ fn_out = TimeStretch(samples, 15 - fn_in[3], duration)

\* A single sample was stretched in mode 2 and came back unchanged.
C31_Witness ==
    /\ fn_in[1] = "time_stretch"
    /\ Len(fn_in[2]) = 1
    /\ fn_in[4] = 2
    /\ fn_out = fn_in[2]

\* C32: in modes 2 and 3 every output sample of time_stretch is the sum of
\* its 2 or 4 consecutive input samples divided by the group size and rounded
\* toward zero, also when the sum is negative.
C32_MeanTowardZero ==
    fn_in[1] = "time_stretch" /\ fn_in[4] \in {2, 3} =>
        LET samples == fn_in[2]
            group == IF fn_in[4] = 2 THEN 2 ELSE 4
            sum(k) == samples[(k - 1) * group + 1]
                      + samples[(k - 1) * group + 2]
                      + IF group = 4
                        THEN samples[(k - 1) * group + 3]
                             + samples[(k - 1) * group + 4]
                        ELSE 0
            trunc(s) == IF s >= 0 THEN s \div group ELSE 0 - ((0 - s) \div group)
        IN  Len(samples) >= group
               => \A k \in 1..(Len(samples) \div group) :
                      fn_out[k] = trunc(sum(k))

-----------------------------------------------------------------------------
(* Chip and synth playback, checked under SynthSpec                        *)

\* A register write on a chip with a synth: the synth plays exactly when the
\* chip emits, and then with the phoneme code the chip logged.
C35_Step ==
    synth_bound /\ synth_bound'
       => /\ (phoneme_log' # phoneme_log) <=> (played' # played)
          /\ played' # played
                => /\ played' = Append(played, played'[Len(played')])
                   /\ phoneme_log' = Append(phoneme_log, played'[Len(played')])

\* C35: for any sequence of register writes to a chip with a synth, the
\* synth plays on exactly the writes on which the chip emits a phoneme, with
\* the same phoneme code, for a synth bound at construction and for one
\* bound by a later set_synth after the chip has left standby.
C35_SynthPlaysWithChip ==
    [][(run = "bound" \/ run = "late") => C35_Step]_vars

\* The part of C35 about the synth bound before any write.
C35_BoundAtConstruction ==
    [][run = "bound" => C35_Step]_vars

-----------------------------------------------------------------------------
(* Deferred IRQ delivery, checked under DeferSpec                          *)

\* One step of the emulator seen from the SSI-263 IRQ line: nothing is
\* driven outside the end of a chunk; at the end of a chunk, with the cycle
\* count already set to cycles_run, the pending IRQ is delivered on line 1
\* exactly when cycles_run has reached it, and it had not been reached at
\* the end of the chunk before.
C33_Step ==
    LET boundary == io_last'.op = "run_chunk"
    IN  /\ ~boundary => irq_calls' = {}
        /\ boundary /\ pending_irq_cycle # None
                    /\ current_cycle' >= pending_irq_cycle
               => /\ irq_calls' = {<<SsiIrqLine, 1>>}
                  /\ pending_irq_cycle' = None
                  /\ current_cycle < pending_irq_cycle
        /\ boundary /\ pending_irq_cycle # None
                    /\ current_cycle' < pending_irq_cycle
               => /\ irq_calls' = {}
                  /\ pending_irq_cycle' = pending_irq_cycle
        /\ boundary /\ pending_irq_cycle = None
               => irq_calls' = {} /\ pending_irq_cycle' = None

\* C33: IRQ line 1 is asserted only at chunk boundaries, after
\* set_cycle_count(cycles_run); a pending IRQ is delivered at the end of the
\* first chunk after which cycles_run >= pending_irq_cycle, never earlier
\* and never skipped.
C33_DeferredDelivery ==
    [][C33_Step]_vars

\* An IRQ scheduled inside a chunk has just been delivered at the end of a
\* later chunk, past boundaries at which it was not yet due.
C33_Witness ==
    /\ io_last.op = "run_chunk"
    /\ irq_calls = {<<SsiIrqLine, 1>>}
    /\ pending_irq_cycle = None
    /\ current_cycle = 52 * ChunkCycles

\* One step of the emulator seen from the IRQ deadline: a write that emits
\* with the IRQ enabled sets the deadline to the cycle count of the end of
\* the previous chunk plus the phoneme duration; the deadline stays until
\* the IRQ is delivered or a later emission replaces it; the boundary B that
\* delivers it is the one with deadline <= B < deadline + 1000.
C37_Step ==
    LET boundary == io_last'.op = "run_chunk"
        emits == /\ io_last'.op = "write"
                 /\ Len(phoneme_log') = Len(phoneme_log) + 1
        armed == emits /\ irq_enabled' /\ irq_callback
    IN  /\ armed => /\ current_cycle % ChunkCycles = 0
                    /\ current_cycle' = current_cycle
                    /\ pending_irq_cycle' =
                           current_cycle
                           + DurationCycles(rate_inflection', duration_phoneme')
        /\ ~armed /\ ~boundary => pending_irq_cycle' = pending_irq_cycle
        /\ boundary /\ irq_calls' # {}
               => /\ pending_irq_cycle # None
                  /\ pending_irq_cycle <= current_cycle'
                  /\ current_cycle' < pending_irq_cycle + ChunkCycles
        /\ boundary /\ irq_calls' = {}
               => /\ pending_irq_cycle' = pending_irq_cycle
                  /\ pending_irq_cycle # None
                        => current_cycle' < pending_irq_cycle

\* C37: a write inside a CPU chunk that emits a phoneme with the IRQ
\* enabled measures the deadline from the cycle count recorded at the end of
\* the previous chunk; with an engine that runs exactly the requested chunk
\* the IRQ is asserted at the chunk boundary B with
\* chunk_start + duration_cycles <= B < chunk_start + duration_cycles + 1000,
\* up to one chunk earlier than write_cycle + duration_cycles.
C37_DeadlineFromChunkStart ==
    [][C37_Step]_vars

\* A phoneme emitted inside the chunk that starts at cycle 3000, with a
\* duration of 49152 cycles, has had its IRQ delivered at boundary 53000:
\* 848 cycles past chunk_start + duration, and before write_cycle + duration
\* for a write in the last 151 cycles of its chunk.
C37_Witness ==
    /\ io_last.op = "run_chunk"
    /\ irq_calls = {<<SsiIrqLine, 1>>}
    /\ emit_kind = "armed"
    /\ emit_deadline = 3 * ChunkCycles + 49152
    /\ current_cycle = 53 * ChunkCycles

-----------------------------------------------------------------------------
(* Sample flow through the audio player, checked under FlowSpec            *)

RECURSIVE Queued(_)
\* The samples waiting in the queue, oldest array first.
Queued(q) == IF q = <<>> THEN <<>> ELSE RunsCat(Head(q), Queued(Tail(q)))

\* The samples 1..n in order, each once.
FirstSamples(n) == IF n = 0 THEN <<>> ELSE <<<<1, n>>>>

\* A callback that finds less than a block writes what it has and then
\* zeros up to the block size, leaves the buffer empty and the queue alone.
C34_Step ==
    player_last'.op = "callback_output" /\ RunsLen(flow.buffer) < Frames
       => /\ flow'.block = [data |-> flow.buffer,
                            zeros |-> Frames - RunsLen(flow.buffer)]
          /\ flow'.buffer = <<>>
          /\ player_buffer' = 0
          /\ queue' = queue

\* C34: across any interleaving of play() calls and callbacks the
\* non-padding samples written to the output are exactly the enqueued
\* samples in enqueue order, each once: the samples delivered so far are the
\* first ones enqueued, and delivered, buffered and queued samples together
\* are all the samples enqueued, in order. A callback that finds fewer than
\* `frames` samples emits what it has followed by zeros, empties the buffer
\* and returns without waiting on the queue.
C34_SampleFlow ==
    /\ [](/\ flow.out = FirstSamples(RunsLen(flow.out))
          /\ RunsCat(flow.out, RunsCat(flow.buffer, Queued(flow.queue)))
                = FirstSamples(flow.enq)
          /\ RunsLen(flow.buffer) = player_buffer
          /\ Len(flow.queue) = Len(queue))
    /\ [](lock = "callback" /\ queue = <<>>
            => ENABLED (FlowOutput /\ UNCHANGED offPlayer))
    /\ [][C34_Step]_vars

\* Arrays of 300 and 1102 samples have gone out in two full blocks and a
\* last block of 378 samples and 134 zeros.
C34_Witness ==
    /\ player_last.op = "callback_output"
    /\ flow.block = [data |-> <<<<1025, 1402>>>>, zeros |-> 134]
    /\ flow.out = FirstSamples(1402)
    /\ flow.buffer = <<>>

-----------------------------------------------------------------------------
(* Playback drains, checked under DrainSpec                                *)

\* C39: once the player is started, with the callback invoked again and
\* again and the play() calls at an end, is_playing() eventually becomes
\* false and stays false, with the queue and the buffer empty.
C39_PlaybackDrains ==
    [](stream => <>[](~IsPlayingResult /\ queue = <<>> /\ player_buffer = 0))

\* Everything enqueued has been delivered and a later callback, finding
\* nothing, wrote a block of silence: is_playing() is false.
C39_Witness ==
    /\ stream
    /\ flow.plays = 2
    /\ flow.out = FirstSamples(1402)
    /\ flow.block = [data |-> <<>>, zeros |-> Frames]
    /\ lock = "free"
    /\ ~IsPlayingResult

=============
